---------------------------- MODULE Spec2Model ----------------------------
(***************************************************************************)
(* Process and session lifecycle of soul-os/src-tauri:                     *)
(*   - SidecarManager (sidecar.rs): the two supervised children            *)
(*     "soul-engine" and "soul-chain", each behind its own Mutex;          *)
(*   - the reader / flusher thread pair that PtyManager::create (pty.rs)   *)
(*     starts for a terminal session, with the shared byte buffer;         *)
(*   - the session registry of PtyManager: create, write, resize, close    *)
(*     and shutdown called by two threads;                                 *)
(*   - the quit handler of lib.rs, which shuts both managers down.         *)
(* Each part has its own next-state relation.                              *)
(***************************************************************************)
EXTENDS Integers, Sequences, FiniteSets, TLC

(***************************************************************************)
(* Bounds of the model.                                                    *)
(***************************************************************************)
\* children the supervisor may spawn in one run (over both names)
MaxSpawns == 2
\* turns of stop_process's poll loop that fit in the grace period: the source
\* sleeps Duration::from_millis(100) per turn until Duration::from_secs(5)
\* have elapsed (50 turns); the model counts time in turns and keeps few
GRACE_POLLS == 2
\* characters the shell of the observed terminal session writes in one run
MaxChars == 3
\* MAX_FLUSH_BYTES is 64 * 1024 in pty.rs; the model keeps the ceiling small so
\* that a drained buffer can exceed it
MAX_FLUSH_BYTES == 2
\* the reader thread's buf is [0u8; 8192] in pty.rs; kept small likewise
READ_BUF_LEN == 2
\* shells that create spawns in a run of the session manager
MaxSessions == 2
\* bytes the observed sidecar child writes to each of its streams
MaxOutBytes == 3

\* the two named processes, in the order SidecarManager::shutdown visits them
ProcessOrder == <<"soul-engine", "soul-chain">>
Names == {ProcessOrder[i] : i \in 1..Len(ProcessOrder)}

\* threads that call into the managers: tauri commands run on a thread pool,
\* the tray and window handlers on the main thread
Threads == {"main", "worker"}
NoThread == "none"

\* Option<Child>::None
NoChild == 0
ChildIds == 1..MaxSpawns

VARIABLES
    unix,       \* build target: cfg(unix) or cfg(not(unix))
    rec,        \* rec[n]: the SidecarProcess record of name n
    lock,       \* lock[n]: the thread holding the Mutex of name n
    os,         \* os[c]: the operating system's view of child c
    nspawned,   \* children spawned so far
    pc,         \* pc[t]: where thread t stands in its current call
    arg,        \* arg[t]: the process name thread t's call works on
    victim,     \* victim[t]: the child handle the call found in the record
    elapsed,    \* elapsed[t]: start.elapsed() of stop_process, in ms
    emitted,    \* emitted[t]: the sidecar:status events the current call published
    ret,        \* ret[t]: the value the current call returns
    report,     \* report[t]: the SidecarStatus a status call returns
    next_id,    \* PtyManager.next_id
    sessions,   \* the keys of PtyManager.sessions
    sid,        \* the id of the observed session (0: not created yet)
    slaveOpen,  \* the shell still holds the slave side of the pty open
    written,    \* characters the shell has written so far
    pending,    \* bytes written to the pty and not yet read by the reader
    readLog,    \* every byte reader.read() has returned so far, in order
    rpc,        \* where the reader thread stands
    rbuf,       \* buf[..n]: the chunk the last read returned, not yet appended
    buffer,     \* the shared Arc<Mutex<Vec<u8>>>
    reader_done,\* the shared AtomicBool
    fpc,        \* where the flusher thread stands
    data,       \* the flusher's drained batch, as far as not yet emitted
    events,     \* the pty:data and pty:exit events published so far
    slock,      \* the thread holding the Mutex of PtyManager.sessions
    child_of,   \* child_of[id]: the _child of the PtySession registered under id
    shells,     \* shells[k]: the operating system's view of the k-th shell spawned
    nshells,    \* shells spawned so far
    mpc,        \* mpc[t]: where thread t stands in its current PtyManager call
    mop,        \* mop[t]: the PtyManager function thread t is in
    marg,       \* marg[t]: the id the call was given (create: the id it took)
    held,       \* held[t]: the shell children owned by the call's local variables
    mret,       \* mret[t]: the value the current call returns
    returned,   \* the ids successful create calls have returned so far, in order
    workers,    \* workers[id]: the threads create has spawned for session id
    host_env,   \* host_env[r]: the environment of the SoulOS process in run r
    shell_env,  \* shell_env[r]: the environment create gave the shell in run r
    rproc,      \* the name of the sidecar child whose output is relayed ("none": not started)
    pipeOpen,   \* pipeOpen[s]: the child still holds the write end of stream s
    pipe,       \* pipe[s]: bytes the child has written to stream s, not yet read
    wrote,      \* wrote[s]: every byte the child has written to stream s, in order
    relay,      \* relay[s]: where the relay thread of stream s stands
    logs        \* the sidecar:stdout and sidecar:stderr events published so far

sidecarVars == <<unix, rec, lock, os, nspawned, pc, arg, victim, elapsed, emitted, ret,
                 report>>

ptyVars == <<next_id, sessions, sid, slaveOpen, written, pending, readLog, rpc, rbuf,
             buffer, reader_done, fpc, data, events>>

\* the reader thread, the flusher thread and the pty of the observed session
workerVars == <<sid, slaveOpen, written, pending, readLog, rpc, rbuf, buffer,
                reader_done, fpc, data, events>>

mgrVars == <<slock, child_of, shells, nshells, mpc, mop, marg, held, mret, returned,
             workers>>

envVars == <<host_env, shell_env>>

relayVars == <<rproc, pipeOpen, pipe, wrote, relay, logs>>

vars == <<sidecarVars, ptyVars, mgrVars, envVars, relayVars>>

(***************************************************************************)
(* SidecarManager::new                                                     *)
(***************************************************************************)
StoppedRecord == [child |-> NoChild, start_time |-> "None", restart_count |-> 0,
                  status |-> "stopped"]

UnbornChild == [name |-> "none", state |-> "unborn", termSent |-> FALSE,
                killedBy |-> "none", exitedInGrace |-> FALSE]

\* no status call in progress
NoReport == [status |-> "none", pid |-> NoChild, uptime_secs |-> "None"]

SidecarInit ==
    /\ unix \in BOOLEAN
    /\ rec = [n \in Names |-> StoppedRecord]
    /\ lock = [n \in Names |-> NoThread]
    /\ os = [c \in ChildIds |-> UnbornChild]
    /\ nspawned = 0
    /\ pc = [t \in Threads |-> "idle"]
    /\ arg = [t \in Threads |-> "none"]
    /\ victim = [t \in Threads |-> NoChild]
    /\ elapsed = [t \in Threads |-> 0]
    /\ emitted = [t \in Threads |-> <<>>]
    /\ ret = [t \in Threads |-> "none"]
    /\ report = [t \in Threads |-> NoReport]

(***************************************************************************)
(* std::process::Child, as the supervisor uses it.                         *)
(***************************************************************************)
\* the SidecarStatus payload of a sidecar:status event
StatusEvent(n, status, pid) == [process |-> n, status |-> status, pid |-> pid]

\* child.kill() then child.wait(): kill() sends SIGKILL unless the handle has
\* already collected the exit status; wait() then collects it
KillAndWait(o, c, who) ==
    [o EXCEPT ![c].state = "reaped",
              ![c].killedBy = IF o[c].state = "reaped" THEN @ ELSE who]

\* libc::kill(child.id(), SIGTERM)
SendTerm(o, c) ==
    [o EXCEPT ![c].termSent = IF o[c].state = "reaped" THEN @ ELSE TRUE]

\* child.try_wait() returned Ok(Some(_)): the child has exited
HasExited(o, c) == o[c].state \in {"zombie", "reaped"}

\* the handle after try_wait(): an exit status that was waiting is collected
TryWait(o, c) ==
    IF o[c].state = "zombie" THEN [o EXCEPT ![c].state = "reaped"] ELSE o

\* a Child handle is dropped (the record is overwritten or cleared): what was
\* done to a child that is gone is no longer part of the state
DropHandle(o, c) ==
    IF c # NoChild /\ o[c].state = "reaped"
      THEN [o EXCEPT ![c] = [UnbornChild EXCEPT !.name = o[c].name, !.state = "reaped"]]
      ELSE o

\* thread t is inside the window in which its child may still exit by itself
InGrace(t, c) ==
    /\ arg[t] \in Names
    /\ rec[arg[t]].child = c
    /\ \/ pc[t] = "stop_poll" /\ elapsed[t] < GRACE_POLLS
       \/ pc[t] = "shut_sleep"

(***************************************************************************)
(* The child process itself: it may exit at any time, by itself or in      *)
(* reaction to SIGTERM; it may also never exit.                            *)
(***************************************************************************)
ChildExit(c) ==
    /\ os[c].state = "alive"
    /\ os' = [os EXCEPT ![c].state = "zombie",
                        ![c].exitedInGrace = \E t \in Threads : InGrace(t, c)]
    /\ UNCHANGED <<unix, rec, lock, nspawned, pc, arg, victim, elapsed, emitted, ret>>
    /\ UNCHANGED <<report, ptyVars, mgrVars, envVars, relayVars>>

(***************************************************************************)
(* The end of every call: the MutexGuard is dropped, the value returned.   *)
(***************************************************************************)
Return(t) ==
    /\ pc[t] \in {"start_ret", "stop_ret", "alive_ret", "status_ret", "shut_ret"}
    /\ lock' = [n \in Names |-> IF lock[n] = t THEN NoThread ELSE lock[n]]
    /\ pc' = [pc EXCEPT ![t] = "idle"]
    /\ arg' = [arg EXCEPT ![t] = "none"]
    /\ victim' = [victim EXCEPT ![t] = NoChild]
    /\ elapsed' = [elapsed EXCEPT ![t] = 0]
    /\ emitted' = [emitted EXCEPT ![t] = <<>>]
    /\ ret' = [ret EXCEPT ![t] = "none"]
    /\ os' = DropHandle(os, victim[t])
    /\ report' = [report EXCEPT ![t] = NoReport]
    /\ UNCHANGED <<unix, rec, nspawned>>
    /\ UNCHANGED <<ptyVars, mgrVars, envVars, relayVars>>

(***************************************************************************)
(* start_engine / start_chain                                              *)
(***************************************************************************)
StartCall_MarksStarting(t, n, resolved) ==
    /\ pc[t] = "idle"
    /\ nspawned < MaxSpawns
    /\ arg' = [arg EXCEPT ![t] = n]
    /\ IF resolved
         THEN /\ pc' = [pc EXCEPT ![t] = "start_lock"]
              /\ ret' = ret
              /\ rec' = rec
         ELSE /\ pc' = [pc EXCEPT ![t] = "start_ret"]
              /\ ret' = [ret EXCEPT ![t] = "Err"]
              /\ rec' = [rec EXCEPT ![n].status = "starting"]
    /\ UNCHANGED <<unix, lock, os, nspawned, victim, elapsed, emitted>>
    /\ UNCHANGED <<report, ptyVars, mgrVars, envVars, relayVars>>

\* find_engine_path / find_chain_path and node::find_node: either fails
\* before the lock is taken
StartCall(t, n, resolved) ==
    /\ pc[t] = "idle"
    /\ nspawned < MaxSpawns
    /\ arg' = [arg EXCEPT ![t] = n]
    /\ IF resolved
         THEN /\ pc' = [pc EXCEPT ![t] = "start_lock"]
              /\ ret' = ret
         ELSE /\ pc' = [pc EXCEPT ![t] = "start_ret"]
              /\ ret' = [ret EXCEPT ![t] = "Err"]
    /\ UNCHANGED <<unix, rec, lock, os, nspawned, victim, elapsed, emitted>>
    /\ UNCHANGED <<report, ptyVars, mgrVars, envVars, relayVars>>

KillExisting_Skip(o, c) == o

\* if let Some(ref mut child) = proc.child { kill; wait }
KillExisting(o, c) ==
    IF c # NoChild THEN KillAndWait(o, c, "start") ELSE o

\* let mut proc = self.engine.lock(); the existing child is killed and waited
\* on; proc.status = "starting"; status=starting is published
StartLock(t) ==
    /\ pc[t] = "start_lock"
    /\ lock[arg[t]] = NoThread
    /\ lock' = [lock EXCEPT ![arg[t]] = t]
    /\ victim' = [victim EXCEPT ![t] = rec[arg[t]].child]
    /\ os' = KillExisting(os, rec[arg[t]].child)
    /\ rec' = [rec EXCEPT ![arg[t]].status = "starting"]
    /\ emitted' = [emitted EXCEPT ![t] = Append(@, StatusEvent(arg[t], "starting", NoChild))]
    /\ pc' = [pc EXCEPT ![t] = "start_spawn"]
    /\ UNCHANGED <<unix, nspawned, arg, elapsed, ret>>
    /\ UNCHANGED <<report, ptyVars, mgrVars, envVars, relayVars>>

StartSpawn_NoRunningEvent(t, ok) ==
    /\ pc[t] = "start_spawn"
    /\ IF ok /\ nspawned < MaxSpawns
         THEN /\ nspawned' = nspawned + 1
              /\ os' = [os EXCEPT ![nspawned + 1] =
                            [UnbornChild EXCEPT !.name = arg[t], !.state = "alive"]]
              /\ rec' = [rec EXCEPT ![arg[t]] =
                            [child |-> nspawned + 1, start_time |-> "Some",
                             restart_count |-> 0, status |-> "running"]]
              /\ ret' = [ret EXCEPT ![t] = "Ok"]
              /\ UNCHANGED emitted
         ELSE /\ ret' = [ret EXCEPT ![t] = "Err"]
              /\ UNCHANGED <<nspawned, os, rec, emitted>>
    /\ pc' = [pc EXCEPT ![t] = "start_ret"]
    /\ UNCHANGED <<unix, lock, arg, victim, elapsed>>
    /\ UNCHANGED <<report, ptyVars, mgrVars, envVars, relayVars>>

\* Command::spawn, then the record is filled in and status=running published;
\* a spawn error returns with the record as it stands
StartSpawn(t, ok) ==
    /\ pc[t] = "start_spawn"
    /\ IF ok /\ nspawned < MaxSpawns
         THEN /\ nspawned' = nspawned + 1
              /\ os' = [os EXCEPT ![nspawned + 1] =
                            [UnbornChild EXCEPT !.name = arg[t], !.state = "alive"]]
              /\ rec' = [rec EXCEPT ![arg[t]] =
                            [child |-> nspawned + 1, start_time |-> "Some",
                             restart_count |-> 0, status |-> "running"]]
              /\ emitted' = [emitted EXCEPT ![t] =
                                Append(@, StatusEvent(arg[t], "running", nspawned + 1))]
              /\ ret' = [ret EXCEPT ![t] = "Ok"]
         ELSE /\ ret' = [ret EXCEPT ![t] = "Err"]
              /\ UNCHANGED <<nspawned, os, rec, emitted>>
    /\ pc' = [pc EXCEPT ![t] = "start_ret"]
    /\ UNCHANGED <<unix, lock, arg, victim, elapsed>>
    /\ UNCHANGED <<report, ptyVars, mgrVars, envVars, relayVars>>

(***************************************************************************)
(* stop_engine / stop_chain: stop_process                                  *)
(***************************************************************************)
StopCall(t, n) ==
    /\ pc[t] = "idle"
    /\ arg' = [arg EXCEPT ![t] = n]
    /\ pc' = [pc EXCEPT ![t] = "stop_lock"]
    /\ UNCHANGED <<unix, rec, lock, os, nspawned, victim, elapsed, emitted, ret>>
    /\ UNCHANGED <<report, ptyVars, mgrVars, envVars, relayVars>>

\* let mut proc = process.lock(); if let Some(ref mut child) = proc.child:
\* cfg(unix): libc::kill(SIGTERM), let start = Instant::now(), the loop;
\* cfg(not(unix)): kill and wait at once
StopLock(t) ==
    /\ pc[t] = "stop_lock"
    /\ lock[arg[t]] = NoThread
    /\ lock' = [lock EXCEPT ![arg[t]] = t]
    /\ victim' = [victim EXCEPT ![t] = rec[arg[t]].child]
    /\ elapsed' = [elapsed EXCEPT ![t] = 0]
    /\ IF rec[arg[t]].child = NoChild
         THEN /\ pc' = [pc EXCEPT ![t] = "stop_clear"]
              /\ os' = os
         ELSE IF unix
           THEN /\ pc' = [pc EXCEPT ![t] = "stop_poll"]
                /\ os' = SendTerm(os, rec[arg[t]].child)
           ELSE /\ pc' = [pc EXCEPT ![t] = "stop_kill"]
                /\ os' = os
    /\ UNCHANGED <<unix, rec, nspawned, arg, emitted, ret>>
    /\ UNCHANGED <<report, ptyVars, mgrVars, envVars, relayVars>>

StopPoll_NoEscalation(t) ==
    /\ pc[t] = "stop_poll"
    /\ os' = TryWait(os, rec[arg[t]].child)
    /\ IF HasExited(os, rec[arg[t]].child) \/ elapsed[t] >= GRACE_POLLS
         THEN /\ pc' = [pc EXCEPT ![t] = "stop_clear"]
              /\ elapsed' = elapsed
         ELSE /\ elapsed' = [elapsed EXCEPT ![t] = @ + 1]
              /\ pc' = pc
    /\ UNCHANGED <<unix, rec, lock, nspawned, arg, victim, emitted, ret>>
    /\ UNCHANGED <<report, ptyVars, mgrVars, envVars, relayVars>>

\* one turn of the loop: match child.try_wait() { Ok(Some(_)) => break,
\* Ok(None) if start.elapsed() < 5 s => sleep(100 ms), _ => kill, wait, break }
StopPoll(t) ==
    /\ pc[t] = "stop_poll"
    /\ os' = TryWait(os, rec[arg[t]].child)
    /\ IF HasExited(os, rec[arg[t]].child)
         THEN /\ pc' = [pc EXCEPT ![t] = "stop_clear"]
              /\ elapsed' = elapsed
         ELSE IF elapsed[t] < GRACE_POLLS
           THEN /\ elapsed' = [elapsed EXCEPT ![t] = @ + 1]
                /\ pc' = pc
           ELSE /\ pc' = [pc EXCEPT ![t] = "stop_kill"]
                /\ elapsed' = elapsed
    /\ UNCHANGED <<unix, rec, lock, nspawned, arg, victim, emitted, ret>>
    /\ UNCHANGED <<report, ptyVars, mgrVars, envVars, relayVars>>

\* let _ = child.kill(); let _ = child.wait()
StopKill(t) ==
    /\ pc[t] = "stop_kill"
    /\ os' = KillAndWait(os, rec[arg[t]].child, "stop")
    /\ pc' = [pc EXCEPT ![t] = "stop_clear"]
    /\ UNCHANGED <<unix, rec, lock, nspawned, arg, victim, elapsed, emitted, ret>>
    /\ UNCHANGED <<report, ptyVars, mgrVars, envVars, relayVars>>

\* the other of the two supervised names
OtherName(n) == CHOOSE m \in Names : m # n

StopClear_OtherRecord(t) ==
    /\ pc[t] = "stop_clear"
    /\ rec' = [rec EXCEPT ![OtherName(arg[t])].child = NoChild,
                          ![OtherName(arg[t])].start_time = "None",
                          ![OtherName(arg[t])].status = "stopped"]
    /\ emitted' = [emitted EXCEPT ![t] = Append(@, StatusEvent(arg[t], "stopped", NoChild))]
    /\ ret' = [ret EXCEPT ![t] = "Ok"]
    /\ pc' = [pc EXCEPT ![t] = "stop_ret"]
    /\ UNCHANGED <<unix, lock, os, nspawned, arg, victim, elapsed>>
    /\ UNCHANGED <<report, ptyVars, mgrVars, envVars, relayVars>>

StopClear_KeepStartTime(t) ==
    /\ pc[t] = "stop_clear"
    /\ rec' = [rec EXCEPT ![arg[t]].child = NoChild, ![arg[t]].status = "stopped"]
    /\ emitted' = [emitted EXCEPT ![t] = Append(@, StatusEvent(arg[t], "stopped", NoChild))]
    /\ ret' = [ret EXCEPT ![t] = "Ok"]
    /\ pc' = [pc EXCEPT ![t] = "stop_ret"]
    /\ UNCHANGED <<unix, lock, os, nspawned, arg, victim, elapsed>>
    /\ UNCHANGED <<report, ptyVars, mgrVars, envVars, relayVars>>

\* proc.child = None; start_time = None; status = "stopped"; emit; Ok(())
StopClear(t) ==
    /\ pc[t] = "stop_clear"
    /\ rec' = [rec EXCEPT ![arg[t]].child = NoChild,
                          ![arg[t]].start_time = "None",
                          ![arg[t]].status = "stopped"]
    /\ emitted' = [emitted EXCEPT ![t] = Append(@, StatusEvent(arg[t], "stopped", NoChild))]
    /\ ret' = [ret EXCEPT ![t] = "Ok"]
    /\ pc' = [pc EXCEPT ![t] = "stop_ret"]
    /\ UNCHANGED <<unix, lock, os, nspawned, arg, victim, elapsed>>
    /\ UNCHANGED <<report, ptyVars, mgrVars, envVars, relayVars>>

IsRunning_NoStatusWrite(t) ==
    /\ pc[t] = "idle"
    /\ lock["soul-engine"] = NoThread
    /\ LET c == rec["soul-engine"].child IN
         IF c = NoChild
           THEN /\ ret' = [ret EXCEPT ![t] = "false"]
                /\ UNCHANGED <<os, rec>>
           ELSE /\ os' = TryWait(os, c)
                /\ IF HasExited(os, c)
                     THEN /\ rec' = rec
                          /\ ret' = [ret EXCEPT ![t] = "false"]
                     ELSE /\ rec' = rec
                          /\ ret' = [ret EXCEPT ![t] = "true"]
    /\ arg' = [arg EXCEPT ![t] = "soul-engine"]
    /\ pc' = [pc EXCEPT ![t] = "alive_ret"]
    /\ UNCHANGED <<unix, lock, nspawned, victim, elapsed, emitted>>
    /\ UNCHANGED <<report, ptyVars, mgrVars, envVars, relayVars>>

(***************************************************************************)
(* is_running (the engine only)                                            *)
(***************************************************************************)
IsRunning(t) ==
    /\ pc[t] = "idle"
    /\ lock["soul-engine"] = NoThread
    /\ LET c == rec["soul-engine"].child IN
         IF c = NoChild
           THEN /\ ret' = [ret EXCEPT ![t] = "false"]
                /\ UNCHANGED <<os, rec>>
           ELSE /\ os' = TryWait(os, c)
                /\ IF HasExited(os, c)
                     THEN /\ rec' = [rec EXCEPT !["soul-engine"].status = "stopped"]
                          /\ ret' = [ret EXCEPT ![t] = "false"]
                     ELSE /\ rec' = rec
                          /\ ret' = [ret EXCEPT ![t] = "true"]
    /\ arg' = [arg EXCEPT ![t] = "soul-engine"]
    /\ pc' = [pc EXCEPT ![t] = "alive_ret"]
    /\ UNCHANGED <<unix, lock, nspawned, victim, elapsed, emitted>>
    /\ UNCHANGED <<report, ptyVars, mgrVars, envVars, relayVars>>

(***************************************************************************)
(* get_status / get_chain_status                                           *)
(***************************************************************************)
GetStatus_Reaping(t, n) ==
    /\ pc[t] = "idle"
    /\ lock[n] = NoThread
    /\ report' = [report EXCEPT ![t] = [status |-> rec[n].status,
                                        pid |-> rec[n].child,
                                        uptime_secs |-> rec[n].start_time]]
    /\ os' = IF rec[n].child # NoChild THEN TryWait(os, rec[n].child) ELSE os
    /\ arg' = [arg EXCEPT ![t] = n]
    /\ pc' = [pc EXCEPT ![t] = "status_ret"]
    /\ UNCHANGED <<unix, rec, lock, nspawned, victim, elapsed, emitted, ret>>
    /\ UNCHANGED <<ptyVars, mgrVars, envVars, relayVars>>

\* let proc = lock().unwrap(); SidecarStatus { status: proc.status.clone(),
\* pid: proc.child.as_ref().map(|c| c.id()), uptime_secs:
\* proc.start_time.map(|t| t.elapsed().as_secs()) }; the guard is dropped at
\* the return
GetStatus(t, n) ==
    /\ pc[t] = "idle"
    /\ lock[n] = NoThread
    /\ report' = [report EXCEPT ![t] = [status |-> rec[n].status,
                                        pid |-> rec[n].child,
                                        uptime_secs |-> rec[n].start_time]]
    /\ arg' = [arg EXCEPT ![t] = n]
    /\ pc' = [pc EXCEPT ![t] = "status_ret"]
    /\ UNCHANGED <<unix, rec, lock, os, nspawned, victim, elapsed, emitted, ret>>
    /\ UNCHANGED <<ptyVars, mgrVars, envVars, relayVars>>

(***************************************************************************)
(* shutdown: for process in [&self.engine, &self.chain]                    *)
(***************************************************************************)
ShutdownCall(t) ==
    /\ pc[t] = "idle"
    /\ arg' = [arg EXCEPT ![t] = ProcessOrder[1]]
    /\ pc' = [pc EXCEPT ![t] = "shut_lock"]
    /\ UNCHANGED <<unix, rec, lock, os, nspawned, victim, elapsed, emitted, ret>>
    /\ UNCHANGED <<report, ptyVars, mgrVars, envVars, relayVars>>

\* let mut proc = process.lock().unwrap(); if let Some(ref mut child) =
\* proc.child: cfg(unix) libc::kill(SIGTERM); thread::sleep(2 s) begins
ShutdownLock(t) ==
    /\ pc[t] = "shut_lock"
    /\ lock[arg[t]] = NoThread
    /\ lock' = [lock EXCEPT ![arg[t]] = t]
    /\ victim' = [victim EXCEPT ![t] = rec[arg[t]].child]
    /\ IF rec[arg[t]].child = NoChild
         THEN /\ pc' = [pc EXCEPT ![t] = "shut_clear"]
              /\ os' = os
         ELSE /\ pc' = [pc EXCEPT ![t] = "shut_sleep"]
              /\ os' = IF unix THEN SendTerm(os, rec[arg[t]].child) ELSE os
    /\ UNCHANGED <<unix, rec, nspawned, arg, elapsed, emitted, ret>>
    /\ UNCHANGED <<report, ptyVars, mgrVars, envVars, relayVars>>

\* shutdown waits for the child to exit instead of killing it
ShutdownKill_WaitsForExit(t) ==
    /\ pc[t] = "shut_sleep"
    /\ HasExited(os, rec[arg[t]].child)
    /\ os' = TryWait(os, rec[arg[t]].child)
    /\ pc' = [pc EXCEPT ![t] = "shut_clear"]
    /\ UNCHANGED <<unix, rec, lock, nspawned, arg, victim, elapsed, emitted, ret>>
    /\ UNCHANGED <<report, ptyVars, mgrVars, envVars, relayVars>>

\* the sleep is over: let _ = child.kill(); let _ = child.wait()
ShutdownKill(t) ==
    /\ pc[t] = "shut_sleep"
    /\ os' = KillAndWait(os, rec[arg[t]].child, "shutdown")
    /\ pc' = [pc EXCEPT ![t] = "shut_clear"]
    /\ UNCHANGED <<unix, rec, lock, nspawned, arg, victim, elapsed, emitted, ret>>
    /\ UNCHANGED <<report, ptyVars, mgrVars, envVars, relayVars>>

\* a shutdown that would store the status and keep the child handle
ShutdownClear_KeepsHandle(t) ==
    /\ pc[t] = "shut_clear"
    /\ rec' = [rec EXCEPT ![arg[t]].status = "stopped"]
    /\ os' = os
    /\ lock' = [lock EXCEPT ![arg[t]] = NoThread]
    /\ victim' = [victim EXCEPT ![t] = NoChild]
    /\ IF arg[t] = ProcessOrder[1]
         THEN /\ arg' = [arg EXCEPT ![t] = ProcessOrder[2]]
              /\ pc' = [pc EXCEPT ![t] = "shut_lock"]
         ELSE /\ arg' = arg
              /\ pc' = [pc EXCEPT ![t] = "shut_ret"]
    /\ UNCHANGED <<unix, nspawned, elapsed, emitted, ret>>
    /\ UNCHANGED <<report, ptyVars, mgrVars, envVars, relayVars>>

\* proc.child = None; proc.status = "stopped"; the guard is dropped at the
\* end of the loop body and the loop goes on to the next process
ShutdownClear(t) ==
    /\ pc[t] = "shut_clear"
    /\ rec' = [rec EXCEPT ![arg[t]].child = NoChild, ![arg[t]].status = "stopped"]
    /\ os' = DropHandle(os, rec[arg[t]].child)
    /\ lock' = [lock EXCEPT ![arg[t]] = NoThread]
    /\ victim' = [victim EXCEPT ![t] = NoChild]
    /\ IF arg[t] = ProcessOrder[1]
         THEN /\ arg' = [arg EXCEPT ![t] = ProcessOrder[2]]
              /\ pc' = [pc EXCEPT ![t] = "shut_lock"]
         ELSE /\ arg' = arg
              /\ pc' = [pc EXCEPT ![t] = "shut_ret"]
    /\ UNCHANGED <<unix, nspawned, elapsed, emitted, ret>>
    /\ UNCHANGED <<report, ptyVars, mgrVars, envVars, relayVars>>

(***************************************************************************)
(* The supervisor's next-state relation.                                   *)
(***************************************************************************)
ThreadStep(t) ==
    \/ \E n \in Names, resolved \in BOOLEAN : StartCall(t, n, resolved)
    \/ StartLock(t)
    \/ \E ok \in BOOLEAN : StartSpawn(t, ok)
    \/ \E n \in Names : StopCall(t, n)
    \/ StopLock(t)
    \/ StopPoll(t)
    \/ StopKill(t)
    \/ StopClear(t)
    \/ IsRunning(t)
    \/ ShutdownCall(t)
    \/ ShutdownLock(t)
    \/ ShutdownKill(t)
    \/ ShutdownClear(t)
    \/ Return(t)

SidecarNext ==
    \/ \E t \in Threads : ThreadStep(t)
    \/ \E c \in ChildIds : ChildExit(c)

\* the supervisor with its status reads
SidecarStatusNext ==
    \/ SidecarNext
    \/ \E t \in Threads, n \in Names : GetStatus(t, n)

(***************************************************************************)
(* A terminal session of PtyManager: the pty, the reader thread and the    *)
(* flusher thread that create starts, and the events the flusher emits.    *)
(* Bytes are numbers 0..255; the shell writes UTF-8 text.                  *)
(***************************************************************************)
\* what the shell writes at a time: "a" (one byte) or "é" (0xC3 0xA9)
Chars == {<<97>>, <<195, 169>>}

\* U+FFFD, which String::from_utf8_lossy puts for every invalid sequence
REPLACEMENT_CHARACTER == 65533

Min(a, b) == IF a < b THEN a ELSE b

\* String::from_utf8_lossy(chunk), as the sequence of code points of the
\* String, for chunks of one-byte and two-byte sequences: a lead byte without
\* its continuation byte and a continuation byte without lead become U+FFFD
RECURSIVE Utf8Lossy(_)
Utf8Lossy(b) ==
    IF b = <<>> THEN <<>>
    ELSE IF b[1] < 128 THEN <<b[1]>> \o Utf8Lossy(Tail(b))
    ELSE IF b[1] \in 194..223 /\ Len(b) >= 2 /\ b[2] \in 128..191
      THEN <<(b[1] - 192) * 64 + (b[2] - 128)>> \o Utf8Lossy(SubSeq(b, 3, Len(b)))
      ELSE <<REPLACEMENT_CHARACTER>> \o Utf8Lossy(Tail(b))

\* the bytes of a String (code points below 65536), as the frontend gets them
RECURSIVE Utf8Bytes(_)
Utf8Bytes(cps) ==
    IF cps = <<>> THEN <<>>
    ELSE LET cp == cps[1] IN
      (IF cp < 128 THEN <<cp>>
       ELSE IF cp < 2048 THEN <<192 + (cp \div 64), 128 + (cp % 64)>>
       ELSE <<224 + (cp \div 4096), 128 + ((cp \div 64) % 64), 128 + (cp % 64)>>)
      \o Utf8Bytes(Tail(cps))

\* app.emit("pty:data", { id, data: text }); chunk and by are not part of the
\* payload: they record the bytes the text was made from and the emitting place
DataEvent(id, chunk, by) ==
    [topic |-> "pty:data", id |-> id, data |-> Utf8Lossy(chunk), chunk |-> chunk, by |-> by]

\* app.emit("pty:exit", { id })
ExitEvent(id) ==
    [topic |-> "pty:exit", id |-> id, data |-> <<>>, chunk |-> <<>>, by |-> "exit"]

\* PtyManager::new
PtyInit ==
    /\ next_id = 1
    /\ sessions = {}
    /\ sid = 0
    /\ slaveOpen = FALSE
    /\ written = 0
    /\ pending = <<>>
    /\ readLog = <<>>
    /\ rpc = "none"
    /\ rbuf = <<>>
    /\ buffer = <<>>
    /\ reader_done = FALSE
    /\ fpc = "none"
    /\ data = <<>>
    /\ events = <<>>

\* create, when nothing fails: the shell is spawned on the slave side, the id
\* taken from next_id, the reader and the flusher thread started, the session
\* registered
PtyCreate ==
    /\ sid = 0
    /\ sid' = next_id
    /\ next_id' = next_id + 1
    /\ sessions' = sessions \cup {next_id}
    /\ slaveOpen' = TRUE
    /\ rpc' = "read"
    /\ fpc' = "loop"
    /\ UNCHANGED <<written, pending, readLog, rbuf, buffer, reader_done, data, events>>
    /\ UNCHANGED <<sidecarVars, mgrVars, envVars, relayVars>>

\* the shell writes a character to its terminal
ShellWrite(ch) ==
    /\ slaveOpen
    /\ written < MaxChars
    /\ written' = written + 1
    /\ pending' = pending \o ch
    /\ UNCHANGED <<next_id, sessions, sid, slaveOpen, readLog, rpc, rbuf, buffer,
                   reader_done, fpc, data, events>>
    /\ UNCHANGED <<sidecarVars, mgrVars, envVars, relayVars>>

\* the shell exits (by itself, or killed by close or shutdown)
ShellExit ==
    /\ slaveOpen
    /\ slaveOpen' = FALSE
    /\ UNCHANGED <<next_id, sessions, sid, written, pending, readLog, rpc, rbuf, buffer,
                   reader_done, fpc, data, events>>
    /\ UNCHANGED <<sidecarVars, mgrVars, envVars, relayVars>>

\* close(sid), as the observed session sees it: the session is removed from
\* the registry and dropped, its shell killed and waited on.  The reader
\* holds its own clone of the master side and the flusher only the buffer,
\* the flag and the AppHandle: neither is told
PtyClose ==
    /\ sid \in sessions
    /\ sessions' = sessions \ {sid}
    /\ slaveOpen' = FALSE
    /\ UNCHANGED <<next_id, sid, written, pending, readLog, rpc, rbuf, buffer,
                   reader_done, fpc, data, events>>
    /\ UNCHANGED <<sidecarVars, mgrVars, envVars, relayVars>>

\* shutdown, as the observed session sees it: the registry is drained and
\* every shell killed and waited on
PtyShutdown ==
    /\ sessions # {}
    /\ sessions' = {}
    /\ slaveOpen' = FALSE
    /\ UNCHANGED <<next_id, sid, written, pending, readLog, rpc, rbuf, buffer,
                   reader_done, fpc, data, events>>
    /\ UNCHANGED <<sidecarVars, mgrVars, envVars, relayVars>>

\* reader.read(&mut buf) returns Ok(n), n > 0: some of the pending bytes, at
\* most the length of buf
ReaderRead(n) ==
    /\ rpc = "read"
    /\ n \in 1..Min(Len(pending), READ_BUF_LEN)
    /\ rbuf' = SubSeq(pending, 1, n)
    /\ pending' = SubSeq(pending, n + 1, Len(pending))
    /\ readLog' = readLog \o SubSeq(pending, 1, n)
    /\ rpc' = "append"
    /\ UNCHANGED <<next_id, sessions, sid, slaveOpen, written, buffer, reader_done,
                   fpc, data, events>>
    /\ UNCHANGED <<sidecarVars, mgrVars, envVars, relayVars>>

\* the reader publishes the chunk itself as well
ReaderAppend_Publishes ==
    /\ rpc = "append"
    /\ buffer' = buffer \o rbuf
    /\ events' = Append(events, DataEvent(sid, rbuf, "drain"))
    /\ rbuf' = <<>>
    /\ rpc' = "read"
    /\ UNCHANGED <<next_id, sessions, sid, slaveOpen, written, pending, readLog,
                   reader_done, fpc, data>>
    /\ UNCHANGED <<sidecarVars, mgrVars, envVars, relayVars>>

\* buffer_r.lock().unwrap().extend_from_slice(&buf[..n])
ReaderAppend ==
    /\ rpc = "append"
    /\ buffer' = buffer \o rbuf
    /\ rbuf' = <<>>
    /\ rpc' = "read"
    /\ UNCHANGED <<next_id, sessions, sid, slaveOpen, written, pending, readLog,
                   reader_done, fpc, data, events>>
    /\ UNCHANGED <<sidecarVars, mgrVars, envVars, relayVars>>

ReaderEnd_NoFlag ==
    /\ rpc = "read"
    /\ pending = <<>>
    /\ ~slaveOpen
    /\ rpc' = "exit"
    /\ UNCHANGED <<next_id, sessions, sid, slaveOpen, written, pending, readLog, rbuf,
                   buffer, reader_done, fpc, data, events>>
    /\ UNCHANGED <<sidecarVars, mgrVars, envVars, relayVars>>

\* reader.read returns Ok(0) or Err(_): done_r.store(true); break
ReaderEnd ==
    /\ rpc = "read"
    /\ pending = <<>>
    /\ ~slaveOpen
    /\ reader_done' = TRUE
    /\ rpc' = "exit"
    /\ UNCHANGED <<next_id, sessions, sid, slaveOpen, written, pending, readLog, rbuf,
                   buffer, fpc, data, events>>
    /\ UNCHANGED <<sidecarVars, mgrVars, envVars, relayVars>>

FlusherDrain_NeedsReader ==
    /\ fpc = "loop"
    /\ IF buffer = <<>> \/ (rpc = "read" /\ ~reader_done)
         THEN /\ fpc' = IF buffer = <<>> /\ reader_done THEN "final" ELSE "loop"
              /\ UNCHANGED <<buffer, data>>
         ELSE /\ data' = buffer
              /\ buffer' = <<>>
              /\ fpc' = "emit"
    /\ UNCHANGED <<next_id, sessions, sid, slaveOpen, written, pending, readLog, rpc,
                   rbuf, reader_done, events>>
    /\ UNCHANGED <<sidecarVars, mgrVars, envVars, relayVars>>

\* a flusher that would look the session up in the registry before draining
FlusherDrain_NeedsRegistry ==
    /\ fpc = "loop"
    /\ slock = NoThread
    /\ IF buffer = <<>>
         THEN /\ fpc' = IF reader_done THEN "final" ELSE "loop"
              /\ UNCHANGED <<buffer, data>>
         ELSE /\ data' = buffer
              /\ buffer' = <<>>
              /\ fpc' = "emit"
    /\ UNCHANGED <<next_id, sessions, sid, slaveOpen, written, pending, readLog, rpc,
                   rbuf, reader_done, events>>
    /\ UNCHANGED <<sidecarVars, mgrVars, envVars, relayVars>>

\* thread::sleep(FLUSH_INTERVAL) is over; under the buffer lock: an empty
\* buffer breaks the loop when the reader is done and continues otherwise; a
\* buffer that is not empty is taken whole (std::mem::take)
FlusherDrain ==
    /\ fpc = "loop"
    /\ IF buffer = <<>>
         THEN /\ fpc' = IF reader_done THEN "final" ELSE "loop"
              /\ UNCHANGED <<buffer, data>>
         ELSE /\ data' = buffer
              /\ buffer' = <<>>
              /\ fpc' = "emit"
    /\ UNCHANGED <<next_id, sessions, sid, slaveOpen, written, pending, readLog, rpc,
                   rbuf, reader_done, events>>
    /\ UNCHANGED <<sidecarVars, mgrVars, envVars, relayVars>>

\* for chunk in data.chunks(MAX_FLUSH_BYTES): one event per turn
FlusherEmit ==
    /\ fpc = "emit"
    /\ LET n == Min(Len(data), MAX_FLUSH_BYTES) IN
         /\ events' = Append(events, DataEvent(sid, SubSeq(data, 1, n), "drain"))
         /\ data' = SubSeq(data, n + 1, Len(data))
         /\ fpc' = IF n = Len(data) THEN "check" ELSE "emit"
    /\ UNCHANGED <<next_id, sessions, sid, slaveOpen, written, pending, readLog, rpc,
                   rbuf, buffer, reader_done>>
    /\ UNCHANGED <<sidecarVars, mgrVars, envVars, relayVars>>

FlusherCheck_ExitEarly ==
    /\ fpc = "check"
    /\ fpc' = IF reader_done THEN "final" ELSE "loop"
    /\ events' = IF reader_done THEN Append(events, ExitEvent(sid)) ELSE events
    /\ UNCHANGED <<next_id, sessions, sid, slaveOpen, written, pending, readLog, rpc,
                   rbuf, buffer, reader_done, data>>
    /\ UNCHANGED <<sidecarVars, mgrVars, envVars, relayVars>>

\* if done_f.load(Ordering::SeqCst) { break }
FlusherCheck ==
    /\ fpc = "check"
    /\ fpc' = IF reader_done THEN "final" ELSE "loop"
    /\ UNCHANGED <<next_id, sessions, sid, slaveOpen, written, pending, readLog, rpc,
                   rbuf, buffer, reader_done, data, events>>
    /\ UNCHANGED <<sidecarVars, mgrVars, envVars, relayVars>>

FlusherFinal_Skip ==
    /\ fpc = "final"
    /\ fpc' = "exit"
    /\ UNCHANGED <<next_id, sessions, sid, slaveOpen, written, pending, readLog, rpc,
                   rbuf, buffer, reader_done, data, events>>
    /\ UNCHANGED <<sidecarVars, mgrVars, envVars, relayVars>>

\* the final flush: under the lock, a buffer that is not empty is emitted as
\* one event; the buffer itself is left as it is
FlusherFinal ==
    /\ fpc = "final"
    /\ events' = IF buffer # <<>> THEN Append(events, DataEvent(sid, buffer, "final"))
                 ELSE events
    /\ fpc' = "exit"
    /\ UNCHANGED <<next_id, sessions, sid, slaveOpen, written, pending, readLog, rpc,
                   rbuf, buffer, reader_done, data>>
    /\ UNCHANGED <<sidecarVars, mgrVars, envVars, relayVars>>

FlusherExit_Silent ==
    /\ fpc = "exit"
    /\ fpc' = "terminated"
    /\ UNCHANGED <<next_id, sessions, sid, slaveOpen, written, pending, readLog, rpc,
                   rbuf, buffer, reader_done, data, events>>
    /\ UNCHANGED <<sidecarVars, mgrVars, envVars, relayVars>>

\* a flusher that would drop the session from the registry with the exit event
FlusherExit_Unregisters ==
    /\ fpc = "exit"
    /\ events' = Append(events, ExitEvent(sid))
    /\ fpc' = "terminated"
    /\ sessions' = sessions \ {sid}
    /\ UNCHANGED <<next_id, sid, slaveOpen, written, pending, readLog, rpc,
                   rbuf, buffer, reader_done, data>>
    /\ UNCHANGED <<sidecarVars, mgrVars, envVars, relayVars>>

\* app.emit("pty:exit"); the thread ends
FlusherExit ==
    /\ fpc = "exit"
    /\ events' = Append(events, ExitEvent(sid))
    /\ fpc' = "terminated"
    /\ UNCHANGED <<next_id, sessions, sid, slaveOpen, written, pending, readLog, rpc,
                   rbuf, buffer, reader_done, data>>
    /\ UNCHANGED <<sidecarVars, mgrVars, envVars, relayVars>>

ReaderStep ==
    \/ \E n \in 1..READ_BUF_LEN : ReaderRead(n)
    \/ ReaderAppend
    \/ ReaderEnd

FlusherStep ==
    \/ FlusherDrain
    \/ FlusherEmit
    \/ FlusherCheck
    \/ FlusherFinal
    \/ FlusherExit

PtyNext ==
    \/ PtyCreate
    \/ \E ch \in Chars : ShellWrite(ch)
    \/ ShellExit
    \/ PtyClose
    \/ PtyShutdown
    \/ ReaderStep
    \/ FlusherStep

(***************************************************************************)
(* The session manager of pty.rs: the registry PtyManager.sessions under   *)
(* its Mutex, the id counter, and the shell children that create spawns.   *)
(* The calls are made by the threads of Threads; the reader and the        *)
(* flusher of a session are the ones modelled above for the observed       *)
(* session.                                                                *)
(***************************************************************************)
\* the ids create can hand out within the bound
Ids == 1..MaxSessions
\* the ids write, resize and close are called with: one of them is never issued
Handles == 1..(MaxSessions + 1)
ShellIds == 1..MaxSessions
\* no session registered under the id
NoShell == 0

UnbornShell == [state |-> "unborn", killed |-> FALSE]

\* PtyManager::new, and no call in progress
MgrInit ==
    /\ slock = NoThread
    /\ child_of = [id \in Ids |-> NoShell]
    /\ shells = [k \in ShellIds |-> UnbornShell]
    /\ nshells = 0
    /\ mpc = [t \in Threads |-> "idle"]
    /\ mop = [t \in Threads |-> "none"]
    /\ marg = [t \in Threads |-> 0]
    /\ held = [t \in Threads |-> {}]
    /\ mret = [t \in Threads |-> "none"]
    /\ returned = <<>>
    /\ workers = [id \in Ids |-> {}]

\* the places of create where `?` can return an error before the id is taken
SpawnFailures == {"openpty", "spawn_command", "take_writer", "try_clone_reader"}
\* the places of create where `?` can return an error after the id is taken
ThreadFailures == {"reader", "flusher"}

KillShells_Skip(sh, K) == sh

\* _child.kill(); _child.wait() for every child of K
KillShells(sh, K) ==
    [k \in DOMAIN sh |-> IF k \in K THEN [state |-> "reaped", killed |-> TRUE] ELSE sh[k]]

\* the shell of a session exits by itself
MgrShellExit(k) ==
    /\ shells[k].state = "alive"
    /\ shells' = [shells EXCEPT ![k].state = "zombie"]
    /\ UNCHANGED <<slock, child_of, nshells, mpc, mop, marg, held, mret, returned, workers>>
    /\ UNCHANGED <<sidecarVars, ptyVars, envVars, relayVars>>

\* create up to try_clone_reader: `at` is the call that fails ("none": no
\* call does).  After spawn_command has succeeded an error return drops the
\* local `child`; dropping a Child neither kills nor waits
CreateSpawn(t, at) ==
    /\ mpc[t] = "idle"
    /\ nshells < MaxSessions
    /\ mop' = [mop EXCEPT ![t] = "create"]
    /\ IF at \in {"openpty", "spawn_command"}
         THEN /\ mpc' = [mpc EXCEPT ![t] = "ret"]
              /\ mret' = [mret EXCEPT ![t] = "Err"]
              /\ UNCHANGED <<shells, nshells, held>>
         ELSE /\ nshells' = nshells + 1
              /\ shells' = [shells EXCEPT ![nshells + 1].state = "alive"]
              /\ IF at = "none"
                   THEN /\ held' = [held EXCEPT ![t] = {nshells + 1}]
                        /\ mpc' = [mpc EXCEPT ![t] = "create_id"]
                        /\ UNCHANGED mret
                   ELSE /\ mpc' = [mpc EXCEPT ![t] = "ret"]
                        /\ mret' = [mret EXCEPT ![t] = "Err"]
                        /\ UNCHANGED held
    /\ UNCHANGED <<slock, child_of, marg, returned, workers>>
    /\ UNCHANGED <<sidecarVars, ptyVars, envVars, relayVars>>

\* the threads create has spawned when the spawn of thread `at` fails: the
\* reader is spawned first, and an error from the flusher's spawn leaves
\* the reader spawned
StartedWorkers(at) ==
    IF at = "reader" THEN {}
    ELSE IF at = "flusher" THEN {"reader"}
    ELSE {"reader", "flusher"}

\* create inserts the session although no flusher thread was spawned
CreateAllocId_NoFlusher(t, at) ==
    /\ mpc[t] = "create_id"
    /\ marg' = [marg EXCEPT ![t] = next_id]
    /\ next_id' = next_id + 1
    /\ IF at = "none"
         THEN /\ mpc' = [mpc EXCEPT ![t] = "create_insert"]
              /\ UNCHANGED <<held, mret>>
         ELSE /\ mpc' = [mpc EXCEPT ![t] = "ret"]
              /\ mret' = [mret EXCEPT ![t] = "Err"]
              /\ held' = [held EXCEPT ![t] = {}]
    /\ workers' = [workers EXCEPT ![next_id] = StartedWorkers(at) \ {"flusher"}]
    /\ UNCHANGED <<slock, child_of, shells, nshells, mop, returned>>
    /\ UNCHANGED <<sidecarVars, sessions, workerVars, envVars, relayVars>>

CreateAllocId_NoIncrement(t, at) ==
    /\ mpc[t] = "create_id"
    /\ marg' = [marg EXCEPT ![t] = next_id]
    /\ IF at = "none"
         THEN /\ mpc' = [mpc EXCEPT ![t] = "create_insert"]
              /\ UNCHANGED <<held, mret>>
         ELSE /\ mpc' = [mpc EXCEPT ![t] = "ret"]
              /\ mret' = [mret EXCEPT ![t] = "Err"]
              /\ held' = [held EXCEPT ![t] = {}]
    /\ workers' = [workers EXCEPT ![next_id] = StartedWorkers(at)]
    /\ UNCHANGED <<slock, child_of, shells, nshells, mop, returned>>
    /\ UNCHANGED <<sidecarVars, ptyVars, envVars, relayVars>>

\* the id is taken under the next_id lock, then the reader and the flusher
\* thread are spawned; `at` is the thread whose spawn fails ("none": neither).
\* The error return drops `child` as above and the id stays used
CreateAllocId(t, at) ==
    /\ mpc[t] = "create_id"
    /\ marg' = [marg EXCEPT ![t] = next_id]
    /\ next_id' = next_id + 1
    /\ IF at = "none"
         THEN /\ mpc' = [mpc EXCEPT ![t] = "create_insert"]
              /\ UNCHANGED <<held, mret>>
         ELSE /\ mpc' = [mpc EXCEPT ![t] = "ret"]
              /\ mret' = [mret EXCEPT ![t] = "Err"]
              /\ held' = [held EXCEPT ![t] = {}]
    /\ workers' = [workers EXCEPT ![next_id] = StartedWorkers(at)]
    /\ UNCHANGED <<slock, child_of, shells, nshells, mop, returned>>
    /\ UNCHANGED <<sidecarVars, sessions, workerVars, envVars, relayVars>>

\* self.sessions.lock().unwrap().insert(id, session); Ok(id): the session is
\* registered and its id handed out
CreateInsert(t) ==
    /\ mpc[t] = "create_insert"
    /\ slock = NoThread
    /\ sessions' = sessions \cup {marg[t]}
    /\ child_of' = [child_of EXCEPT ![marg[t]] = CHOOSE k \in held[t] : TRUE]
    /\ held' = [held EXCEPT ![t] = {}]
    /\ mret' = [mret EXCEPT ![t] = "Ok"]
    /\ returned' = Append(returned, marg[t])
    /\ mpc' = [mpc EXCEPT ![t] = "ret"]
    /\ UNCHANGED <<slock, shells, nshells, mop, marg, workers>>
    /\ UNCHANGED <<sidecarVars, next_id, workerVars, envVars, relayVars>>

MgrWrite_OkOnUnknown(t, id) ==
    /\ mpc[t] = "idle"
    /\ slock = NoThread
    /\ mop' = [mop EXCEPT ![t] = "write"]
    /\ marg' = [marg EXCEPT ![t] = id]
    /\ IF id \in sessions
         THEN /\ slock' = t
              /\ mpc' = [mpc EXCEPT ![t] = "write_io"]
              /\ UNCHANGED mret
         ELSE /\ mret' = [mret EXCEPT ![t] = "Ok"]
              /\ mpc' = [mpc EXCEPT ![t] = "ret"]
              /\ UNCHANGED slock
    /\ UNCHANGED <<child_of, shells, nshells, held, returned, workers>>
    /\ UNCHANGED <<sidecarVars, ptyVars, envVars, relayVars>>

\* write: the registry is locked and the session looked up; an unknown id
\* returns the error at once
MgrWrite(t, id) ==
    /\ mpc[t] = "idle"
    /\ slock = NoThread
    /\ mop' = [mop EXCEPT ![t] = "write"]
    /\ marg' = [marg EXCEPT ![t] = id]
    /\ IF id \in sessions
         THEN /\ slock' = t
              /\ mpc' = [mpc EXCEPT ![t] = "write_io"]
              /\ UNCHANGED mret
         ELSE /\ mret' = [mret EXCEPT ![t] = "NotFound"]
              /\ mpc' = [mpc EXCEPT ![t] = "ret"]
              /\ UNCHANGED slock
    /\ UNCHANGED <<child_of, shells, nshells, held, returned, workers>>
    /\ UNCHANGED <<sidecarVars, ptyVars, envVars, relayVars>>

\* writer.write_all(data) and writer.flush(), with the registry still locked;
\* the guard is dropped when write returns
MgrWriteIO(t, ok) ==
    /\ mpc[t] = "write_io"
    /\ mret' = [mret EXCEPT ![t] = IF ok THEN "Ok" ELSE "Err"]
    /\ slock' = NoThread
    /\ mpc' = [mpc EXCEPT ![t] = "ret"]
    /\ UNCHANGED <<child_of, shells, nshells, mop, marg, held, returned, workers>>
    /\ UNCHANGED <<sidecarVars, ptyVars, envVars, relayVars>>

\* resize: lookup under the lock, then master.resize
MgrResize(t, id, ok) ==
    /\ mpc[t] = "idle"
    /\ slock = NoThread
    /\ mop' = [mop EXCEPT ![t] = "resize"]
    /\ marg' = [marg EXCEPT ![t] = id]
    /\ mret' = [mret EXCEPT ![t] = IF id \notin sessions THEN "NotFound"
                                   ELSE IF ok THEN "Ok" ELSE "Err"]
    /\ mpc' = [mpc EXCEPT ![t] = "ret"]
    /\ UNCHANGED <<slock, child_of, shells, nshells, held, returned, workers>>
    /\ UNCHANGED <<sidecarVars, ptyVars, envVars, relayVars>>

MgrClose_ErrOnUnknown(t, id) ==
    /\ mpc[t] = "idle"
    /\ slock = NoThread
    /\ mop' = [mop EXCEPT ![t] = "close"]
    /\ marg' = [marg EXCEPT ![t] = id]
    /\ IF id \in sessions
         THEN /\ sessions' = sessions \ {id}
              /\ held' = [held EXCEPT ![t] = {child_of[id]}]
              /\ child_of' = [child_of EXCEPT ![id] = NoShell]
              /\ slock' = t
              /\ mpc' = [mpc EXCEPT ![t] = "close_kill"]
              /\ UNCHANGED mret
         ELSE /\ mret' = [mret EXCEPT ![t] = "NotFound"]
              /\ mpc' = [mpc EXCEPT ![t] = "ret"]
              /\ UNCHANGED <<sessions, held, child_of, slock>>
    /\ UNCHANGED <<shells, nshells, returned, workers>>
    /\ UNCHANGED <<sidecarVars, next_id, workerVars, envVars, relayVars>>

\* close: sessions.remove(&id) under the lock; the removed session is owned
\* by the local `session`
MgrClose(t, id) ==
    /\ mpc[t] = "idle"
    /\ slock = NoThread
    /\ mop' = [mop EXCEPT ![t] = "close"]
    /\ marg' = [marg EXCEPT ![t] = id]
    /\ IF id \in sessions
         THEN /\ sessions' = sessions \ {id}
              /\ held' = [held EXCEPT ![t] = {child_of[id]}]
              /\ child_of' = [child_of EXCEPT ![id] = NoShell]
              /\ slock' = t
              /\ mpc' = [mpc EXCEPT ![t] = "close_kill"]
              /\ UNCHANGED mret
         ELSE /\ mret' = [mret EXCEPT ![t] = "Ok"]
              /\ mpc' = [mpc EXCEPT ![t] = "ret"]
              /\ UNCHANGED <<sessions, held, child_of, slock>>
    /\ UNCHANGED <<shells, nshells, returned, workers>>
    /\ UNCHANGED <<sidecarVars, next_id, workerVars, envVars, relayVars>>

\* session._child.kill(); session._child.wait(); Ok(()) and the guard dropped
MgrCloseKill(t) ==
    /\ mpc[t] = "close_kill"
    /\ shells' = KillShells(shells, held[t])
    /\ slock' = NoThread
    /\ mret' = [mret EXCEPT ![t] = "Ok"]
    /\ mpc' = [mpc EXCEPT ![t] = "ret"]
    /\ UNCHANGED <<child_of, nshells, mop, marg, held, returned, workers>>
    /\ UNCHANGED <<sidecarVars, ptyVars, envVars, relayVars>>

\* shutdown: the registry is locked and drained
MgrShutdown(t) ==
    /\ mpc[t] = "idle"
    /\ slock = NoThread
    /\ mop' = [mop EXCEPT ![t] = "shutdown"]
    /\ held' = [held EXCEPT ![t] = {child_of[id] : id \in sessions}]
    /\ sessions' = {}
    /\ child_of' = [id \in Ids |-> NoShell]
    /\ slock' = t
    /\ mpc' = [mpc EXCEPT ![t] = "shutdown_kill"]
    /\ UNCHANGED <<shells, nshells, marg, mret, returned, workers>>
    /\ UNCHANGED <<sidecarVars, next_id, workerVars, envVars, relayVars>>

\* kill() and wait() for every drained session, then the guard is dropped
MgrShutdownKill(t) ==
    /\ mpc[t] = "shutdown_kill"
    /\ shells' = KillShells(shells, held[t])
    /\ slock' = NoThread
    /\ mpc' = [mpc EXCEPT ![t] = "ret"]
    /\ UNCHANGED <<child_of, nshells, mop, marg, held, mret, returned, workers>>
    /\ UNCHANGED <<sidecarVars, ptyVars, envVars, relayVars>>

\* the call returns to its caller
MgrReturn(t) ==
    /\ mpc[t] = "ret"
    /\ mpc' = [mpc EXCEPT ![t] = "idle"]
    /\ mop' = [mop EXCEPT ![t] = "none"]
    /\ marg' = [marg EXCEPT ![t] = 0]
    /\ held' = [held EXCEPT ![t] = {}]
    /\ mret' = [mret EXCEPT ![t] = "none"]
    /\ UNCHANGED <<slock, child_of, shells, nshells, returned, workers>>
    /\ UNCHANGED <<sidecarVars, ptyVars, envVars, relayVars>>

MgrNext ==
    \/ \E k \in ShellIds : MgrShellExit(k)
    \/ \E t \in Threads, at \in SpawnFailures \cup {"none"} : CreateSpawn(t, at)
    \/ \E t \in Threads, at \in ThreadFailures \cup {"none"} : CreateAllocId(t, at)
    \/ \E t \in Threads : CreateInsert(t)
    \/ \E t \in Threads, id \in Handles : MgrWrite(t, id)
    \/ \E t \in Threads, ok \in BOOLEAN : MgrWriteIO(t, ok)
    \/ \E t \in Threads, id \in Handles, ok \in BOOLEAN : MgrResize(t, id, ok)
    \/ \E t \in Threads, id \in Handles : MgrClose(t, id)
    \/ \E t \in Threads : MgrCloseKill(t)
    \/ \E t \in Threads : MgrShutdown(t)
    \/ \E t \in Threads : MgrShutdownKill(t)
    \/ \E t \in Threads : MgrReturn(t)


(***************************************************************************)
(* Teardown, as lib.rs does it: the commands of commands.rs and the quit   *)
(* handler call the two managers from one thread, one call at a time; the  *)
(* handler calls the shutdown of one manager, then of the other, and       *)
(* nothing after them.                                                     *)
(***************************************************************************)
MainThread == "main"

\* the handler has called the supervisor's shutdown and it has returned
SidecarShutdownReturned == pc[MainThread] = "shut_ret"
\* the handler has called the session manager's shutdown and it has returned
PtyShutdownReturned == mop[MainThread] = "shutdown" /\ mpc[MainThread] = "ret"

\* the thread is in no call of the session manager / of the supervisor
NoPtyCall == mpc[MainThread] = "idle"
NoSidecarCall == pc[MainThread] = "idle"

\* commands::start_engine, commands::start_chain
CmdStart(n, resolved) == NoPtyCall /\ StartCall(MainThread, n, resolved)

\* commands::create_pty
CmdCreatePty(at) == NoSidecarCall /\ CreateSpawn(MainThread, at)

\* commands::close_pty
CmdClosePty(id) == NoSidecarCall /\ MgrClose(MainThread, id)

\* a command returns
CmdReturn == ~SidecarShutdownReturned /\ Return(MainThread)

CmdPtyReturn == ~PtyShutdownReturned /\ MgrReturn(MainThread)

\* sidecar.shutdown() in the handler: first, or after pty.shutdown()
QuitSidecar == (NoPtyCall \/ PtyShutdownReturned) /\ ShutdownCall(MainThread)

\* pty.shutdown() in the handler: after sidecar.shutdown(), or first
QuitPty == (NoSidecarCall \/ SidecarShutdownReturned) /\ MgrShutdown(MainThread)

TeardownNext ==
    \/ \E c \in ChildIds : ChildExit(c)
    \/ \E k \in ShellIds : MgrShellExit(k)
    \/ \E n \in Names, resolved \in BOOLEAN : CmdStart(n, resolved)
    \/ StartLock(MainThread)
    \/ \E ok \in BOOLEAN : StartSpawn(MainThread, ok)
    \/ CmdReturn
    \/ \E at \in SpawnFailures \cup {"none"} : CmdCreatePty(at)
    \/ \E at \in ThreadFailures \cup {"none"} : CreateAllocId(MainThread, at)
    \/ CreateInsert(MainThread)
    \/ \E id \in Handles : CmdClosePty(id)
    \/ MgrCloseKill(MainThread)
    \/ CmdPtyReturn
    \/ QuitSidecar
    \/ ShutdownLock(MainThread)
    \/ ShutdownKill(MainThread)
    \/ ShutdownClear(MainThread)
    \/ QuitPty
    \/ MgrShutdownKill(MainThread)

\* WindowEvent::Destroyed of the main window (lib.rs 175-184), after the quit
\* handler has called both shutdowns: the handler calls sidecar.shutdown()
\* and pty.shutdown() again.  The earlier call of a manager's shutdown has
\* returned; the new call is QuitSidecar or QuitPty
DestroyedSidecar ==
    /\ SidecarShutdownReturned
    /\ PtyShutdownReturned
    /\ Return(MainThread)

DestroyedPty ==
    /\ SidecarShutdownReturned
    /\ PtyShutdownReturned
    /\ MgrReturn(MainThread)

\* the commands, the quit handler and then the destroyed handler; each
\* handler calls sidecar.shutdown() first and pty.shutdown() second
TeardownAgainNext ==
    \/ \E c \in ChildIds : ChildExit(c)
    \/ \E k \in ShellIds : MgrShellExit(k)
    \/ \E n \in Names, resolved \in BOOLEAN : CmdStart(n, resolved)
    \/ StartLock(MainThread)
    \/ \E ok \in BOOLEAN : StartSpawn(MainThread, ok)
    \/ CmdReturn
    \/ \E at \in SpawnFailures \cup {"none"} : CmdCreatePty(at)
    \/ \E at \in ThreadFailures \cup {"none"} : CreateAllocId(MainThread, at)
    \/ CreateInsert(MainThread)
    \/ \E id \in Handles : CmdClosePty(id)
    \/ MgrCloseKill(MainThread)
    \/ CmdPtyReturn
    \/ QuitSidecar
    \/ ShutdownLock(MainThread)
    \/ ShutdownKill(MainThread)
    \/ ShutdownClear(MainThread)
    \/ SidecarShutdownReturned /\ MgrShutdown(MainThread)
    \/ MgrShutdownKill(MainThread)
    \/ DestroyedSidecar
    \/ DestroyedPty


(***************************************************************************)
(* kill() and wait() that fail.  Above, `let _ = child.kill(); let _ =     *)
(* child.wait()` is modelled with both calls succeeding.  Here at least    *)
(* one of the two returns Err: a kill() that fails delivers no signal, a   *)
(* wait() that fails collects nothing and returns at once.  A wait() that  *)
(* does not fail returns when the child has exited, so after a kill() that *)
(* failed it returns only for a child that has exited by itself.           *)
(***************************************************************************)
KillWaitOutcomes == {"kill_fails", "wait_fails", "both_fail"}

\* kill() and wait() with the given outcome return without blocking for ever
Returns(state, outcome) == outcome = "kill_fails" => state # "alive"

\* let _ = child.kill(); let _ = child.wait() on std::process::Child
KillAndWaitFailing(o, c, who, outcome) ==
    IF outcome = "wait_fails"
      THEN [o EXCEPT ![c].state = IF @ = "alive" THEN "zombie" ELSE @,
                     ![c].killedBy = IF o[c].state = "reaped" THEN @ ELSE who]
    ELSE IF outcome = "kill_fails"
      THEN [o EXCEPT ![c].state = "reaped"]
    ELSE o

\* let _ = session._child.kill(); let _ = session._child.wait() for every
\* child of K
KillShellsFailing(sh, K, outcome) ==
    [k \in DOMAIN sh |->
        IF k \notin K THEN sh[k]
        ELSE IF outcome = "wait_fails"
          THEN [state |-> IF sh[k].state = "alive" THEN "zombie" ELSE sh[k].state,
                killed |-> TRUE]
        ELSE IF outcome = "kill_fails"
          THEN [sh[k] EXCEPT !.state = "reaped"]
        ELSE sh[k]]

\* the error of kill() or wait() is returned to the caller with `?`
StopKillFails_Propagates(t, outcome) ==
    /\ pc[t] = "stop_kill"
    /\ Returns(os[rec[arg[t]].child].state, outcome)
    /\ os' = KillAndWaitFailing(os, rec[arg[t]].child, "stop", outcome)
    /\ ret' = [ret EXCEPT ![t] = "Err"]
    /\ pc' = [pc EXCEPT ![t] = "stop_ret"]
    /\ UNCHANGED <<unix, rec, lock, nspawned, arg, victim, elapsed, emitted>>
    /\ UNCHANGED <<report, ptyVars, mgrVars, envVars, relayVars>>

\* stop_process: let _ = child.kill(); let _ = child.wait(), one of them failing
StopKillFails(t, outcome) ==
    /\ pc[t] = "stop_kill"
    /\ Returns(os[rec[arg[t]].child].state, outcome)
    /\ os' = KillAndWaitFailing(os, rec[arg[t]].child, "stop", outcome)
    /\ pc' = [pc EXCEPT ![t] = "stop_clear"]
    /\ UNCHANGED <<unix, rec, lock, nspawned, arg, victim, elapsed, emitted, ret>>
    /\ UNCHANGED <<report, ptyVars, mgrVars, envVars, relayVars>>

\* SidecarManager::shutdown: the same after the sleep
ShutdownKillFails(t, outcome) ==
    /\ pc[t] = "shut_sleep"
    /\ Returns(os[rec[arg[t]].child].state, outcome)
    /\ os' = KillAndWaitFailing(os, rec[arg[t]].child, "shutdown", outcome)
    /\ pc' = [pc EXCEPT ![t] = "shut_clear"]
    /\ UNCHANGED <<unix, rec, lock, nspawned, arg, victim, elapsed, emitted, ret>>
    /\ UNCHANGED <<report, ptyVars, mgrVars, envVars, relayVars>>

\* PtyManager::close: the same for the removed session
MgrCloseKillFails(t, outcome) ==
    /\ mpc[t] = "close_kill"
    /\ \A k \in held[t] : Returns(shells[k].state, outcome)
    /\ shells' = KillShellsFailing(shells, held[t], outcome)
    /\ slock' = NoThread
    /\ mret' = [mret EXCEPT ![t] = "Ok"]
    /\ mpc' = [mpc EXCEPT ![t] = "ret"]
    /\ UNCHANGED <<child_of, nshells, mop, marg, held, returned, workers>>
    /\ UNCHANGED <<sidecarVars, ptyVars, envVars, relayVars>>

\* PtyManager::shutdown: the same for every drained session
MgrShutdownKillFails(t, outcome) ==
    /\ mpc[t] = "shutdown_kill"
    /\ held[t] # {}
    /\ \A k \in held[t] : Returns(shells[k].state, outcome)
    /\ shells' = KillShellsFailing(shells, held[t], outcome)
    /\ slock' = NoThread
    /\ mpc' = [mpc EXCEPT ![t] = "ret"]
    /\ UNCHANGED <<child_of, nshells, mop, marg, held, mret, returned, workers>>
    /\ UNCHANGED <<sidecarVars, ptyVars, envVars, relayVars>>

\* the two managers share no state: a run below calls one of them
\* no call of the supervisor has changed anything and none is in progress
SidecarUntouched ==
    /\ rec = [n \in Names |-> StoppedRecord]
    /\ nspawned = 0
    /\ \A t \in Threads : pc[t] = "idle"
\* no call of the session manager has changed anything and none is in progress
MgrUntouched ==
    /\ nshells = 0
    /\ next_id = 1
    /\ \A t \in Threads : mpc[t] = "idle"

\* one thread calls the supervisor, or one thread calls the session manager
OneManagerNext ==
    \/ MgrUntouched /\ ThreadStep(MainThread)
    \/ MgrUntouched /\ \E c \in ChildIds : ChildExit(c)
    \/ SidecarUntouched /\ \E k \in ShellIds : MgrShellExit(k)
    \/ SidecarUntouched /\ \E at \in SpawnFailures \cup {"none"} : CreateSpawn(MainThread, at)
    \/ SidecarUntouched /\ \E at \in ThreadFailures \cup {"none"} : CreateAllocId(MainThread, at)
    \/ SidecarUntouched /\ CreateInsert(MainThread)
    \/ SidecarUntouched /\ \E id \in Handles : MgrClose(MainThread, id)
    \/ SidecarUntouched /\ MgrCloseKill(MainThread)
    \/ SidecarUntouched /\ MgrShutdown(MainThread)
    \/ SidecarUntouched /\ MgrShutdownKill(MainThread)
    \/ SidecarUntouched /\ MgrReturn(MainThread)

\* the same, and kill() and wait() may fail in stop, close and both shutdowns
FaultNext ==
    \/ OneManagerNext
    \/ MgrUntouched /\ \E outcome \in KillWaitOutcomes : StopKillFails(MainThread, outcome)
    \/ MgrUntouched /\ \E outcome \in KillWaitOutcomes : ShutdownKillFails(MainThread, outcome)
    \/ SidecarUntouched /\ \E outcome \in KillWaitOutcomes : MgrCloseKillFails(MainThread, outcome)
    \/ SidecarUntouched /\ \E outcome \in KillWaitOutcomes : MgrShutdownKillFails(MainThread, outcome)

\* the locks of both managers, one part of the program in a run: one thread
\* calls the supervisor; or it calls create, write and resize of the session
\* manager; or it calls write and resize while the reader and the flusher of
\* the observed session run. What changes the registry from another caller
\* (PtyCreate, PtyClose, PtyShutdown) waits for the registry lock
LockNext ==
    \/ MgrUntouched /\ sid = 0 /\ ThreadStep(MainThread)
    \/ MgrUntouched /\ sid = 0 /\ \E c \in ChildIds : ChildExit(c)
    \/ SidecarUntouched /\ MgrUntouched /\ PtyCreate
    \/ SidecarUntouched /\ slock = NoThread /\ PtyClose
    \/ SidecarUntouched /\ slock = NoThread /\ PtyShutdown
    \/ SidecarUntouched /\ \E ch \in Chars : ShellWrite(ch)
    \/ SidecarUntouched /\ ShellExit
    \/ SidecarUntouched /\ ReaderStep
    \/ SidecarUntouched /\ FlusherStep
    \/ SidecarUntouched /\ sid = 0
          /\ \E at \in SpawnFailures \cup {"none"} : CreateSpawn(MainThread, at)
    \/ SidecarUntouched /\ sid = 0
          /\ \E at \in ThreadFailures \cup {"none"} : CreateAllocId(MainThread, at)
    \/ SidecarUntouched /\ sid = 0 /\ CreateInsert(MainThread)
    \/ SidecarUntouched /\ \E id \in Handles : MgrWrite(MainThread, id)
    \/ SidecarUntouched /\ \E ok \in BOOLEAN : MgrWriteIO(MainThread, ok)
    \/ SidecarUntouched /\ \E id \in Handles, ok \in BOOLEAN : MgrResize(MainThread, id, ok)
    \/ SidecarUntouched /\ MgrReturn(MainThread)

(***************************************************************************)
(* The output of a sidecar child (sidecar.rs 137-173, 230-264): start      *)
(* takes the child's stdout and stderr pipes and spawns one thread for     *)
(* each, which runs `for line in BufReader::new(pipe).lines()` and emits   *)
(* every line that is Ok.  One started child is observed.                  *)
(***************************************************************************)
Streams == {"stdout", "stderr"}

NEWLINE == 10
CARRIAGE_RETURN == 13

\* what the child writes at a time: "a", a newline, or the byte 0xFF, which
\* is part of no UTF-8 text
OutBytes == {97, NEWLINE, 255}

RelayIdle ==
    /\ rproc = "none"
    /\ pipeOpen = [s \in Streams |-> FALSE]
    /\ pipe = [s \in Streams |-> <<>>]
    /\ wrote = [s \in Streams |-> <<>>]
    /\ relay = [s \in Streams |-> "none"]
    /\ logs = <<>>

\* String::from_utf8(bytes).is_ok(), for one-byte and two-byte sequences
RECURSIVE IsUtf8(_)
IsUtf8(b) ==
    IF b = <<>> THEN TRUE
    ELSE IF b[1] < 128 THEN IsUtf8(Tail(b))
    ELSE IF b[1] \in 194..223 /\ Len(b) >= 2 /\ b[2] \in 128..191
      THEN IsUtf8(SubSeq(b, 3, Len(b)))
      ELSE FALSE

\* the index of the first newline of b (0: none)
RECURSIVE FirstNewline(_)
FirstNewline(b) ==
    IF b = <<>> THEN 0
    ELSE IF b[1] = NEWLINE THEN 1
    ELSE IF FirstNewline(Tail(b)) = 0 THEN 0 ELSE FirstNewline(Tail(b)) + 1

\* BufRead::lines strips the "\n" or "\r\n" that ends the line
StripLineEnd(b) ==
    LET noLf == IF b # <<>> /\ b[Len(b)] = NEWLINE THEN SubSeq(b, 1, Len(b) - 1) ELSE b
    IN  IF noLf # b /\ noLf # <<>> /\ noLf[Len(noLf)] = CARRIAGE_RETURN
          THEN SubSeq(noLf, 1, Len(noLf) - 1)
          ELSE noLf

\* app.emit("sidecar:stdout" / "sidecar:stderr", { process, line }); bytes is
\* not part of the payload: it records the bytes the line was made from
LogEvent(s, n, b) ==
    [topic |-> IF s = "stdout" THEN "sidecar:stdout" ELSE "sidecar:stderr",
     process |-> n, line |-> Utf8Lossy(b), bytes |-> b]

\* Command::spawn with Stdio::piped() has succeeded: child.stdout.take() and
\* child.stderr.take() are Some, and a thread is spawned for each
RelayStart(n) ==
    /\ rproc = "none"
    /\ rproc' = n
    /\ pipeOpen' = [s \in Streams |-> TRUE]
    /\ relay' = [s \in Streams |-> "lines"]
    /\ UNCHANGED <<pipe, wrote, logs>>
    /\ UNCHANGED <<sidecarVars, ptyVars, mgrVars, envVars>>

\* the child writes a byte to one of its streams
ChildWrite(s, b) ==
    /\ pipeOpen[s]
    /\ Len(wrote[s]) < MaxOutBytes
    /\ pipe' = [pipe EXCEPT ![s] = Append(@, b)]
    /\ wrote' = [wrote EXCEPT ![s] = Append(@, b)]
    /\ UNCHANGED <<rproc, pipeOpen, relay, logs>>
    /\ UNCHANGED <<sidecarVars, ptyVars, mgrVars, envVars>>

\* the child exits (or is killed): the write ends of its pipes are closed
ChildGone ==
    /\ \E s \in Streams : pipeOpen[s]
    /\ pipeOpen' = [s \in Streams |-> FALSE]
    /\ UNCHANGED <<rproc, pipe, wrote, relay, logs>>
    /\ UNCHANGED <<sidecarVars, ptyVars, mgrVars, envVars>>

\* the relay emits every line, also one that is not UTF-8 text
RelayLine_Lossy(s) ==
    /\ relay[s] = "lines"
    /\ FirstNewline(pipe[s]) > 0 \/ (~pipeOpen[s] /\ pipe[s] # <<>>)
    /\ LET n == IF FirstNewline(pipe[s]) > 0 THEN FirstNewline(pipe[s]) ELSE Len(pipe[s])
           raw == SubSeq(pipe[s], 1, n)
       IN  /\ pipe' = [pipe EXCEPT ![s] = SubSeq(@, n + 1, Len(@))]
           /\ logs' = Append(logs, LogEvent(s, rproc, StripLineEnd(raw)))
    /\ UNCHANGED <<rproc, pipeOpen, wrote, relay>>
    /\ UNCHANGED <<sidecarVars, ptyVars, mgrVars, envVars>>

\* one turn of `for line in reader.lines()`: the next item is the bytes up to
\* and including the next newline, or up to the end of the stream; it is
\* Ok(line) when they are UTF-8 text and Err(_) otherwise; `if let Ok(line)`
\* emits the first and passes over the second
RelayLine(s) ==
    /\ relay[s] = "lines"
    /\ FirstNewline(pipe[s]) > 0 \/ (~pipeOpen[s] /\ pipe[s] # <<>>)
    /\ LET n == IF FirstNewline(pipe[s]) > 0 THEN FirstNewline(pipe[s]) ELSE Len(pipe[s])
           raw == SubSeq(pipe[s], 1, n)
       IN  /\ pipe' = [pipe EXCEPT ![s] = SubSeq(@, n + 1, Len(@))]
           /\ logs' = IF IsUtf8(raw)
                        THEN Append(logs, LogEvent(s, rproc, StripLineEnd(raw)))
                        ELSE logs
    /\ UNCHANGED <<rproc, pipeOpen, wrote, relay>>
    /\ UNCHANGED <<sidecarVars, ptyVars, mgrVars, envVars>>

\* lines() returns None at the end of the stream: the thread ends
RelayEnd(s) ==
    /\ relay[s] = "lines"
    /\ ~pipeOpen[s]
    /\ pipe[s] = <<>>
    /\ relay' = [relay EXCEPT ![s] = "done"]
    /\ UNCHANGED <<rproc, pipeOpen, pipe, wrote, logs>>
    /\ UNCHANGED <<sidecarVars, ptyVars, mgrVars, envVars>>

RelayNext ==
    \/ \E n \in Names : RelayStart(n)
    \/ \E s \in Streams, b \in OutBytes : ChildWrite(s, b)
    \/ ChildGone
    \/ \E s \in Streams : RelayLine(s)
    \/ \E s \in Streams : RelayEnd(s)

(***************************************************************************)
(* The environment create gives the shell (pty.rs 52-104), as a function   *)
(* of the environment of the SoulOS process.  An environment maps every    *)
(* variable name to its value or to Unset.  Two runs of the program are    *)
(* kept side by side, each with its own process environment.               *)
(***************************************************************************)
Unset == "(unset)"

\* the keys of the pass-through loop
PassThrough ==
    {"HOME", "USER", "LOGNAME", "PATH", "SHELL", "TMPDIR", "XDG_RUNTIME_DIR",
     "HOMEBREW_PREFIX", "HOMEBREW_CELLAR", "HOMEBREW_REPOSITORY", "SSH_AUTH_SOCK"}

\* the variables whose value create takes from the process: the locale and
\* the pass-through keys
HostDerived == PassThrough \cup {"LANG", "LC_CTYPE"}

\* the variables create sets to a value of its own
FixedNames ==
    {"CLAUDECODE", "TERM", "COLORTERM", "TERM_PROGRAM", "TERM_PROGRAM_VERSION",
     "SOUL_PATH", "INSIDE_SOUL_OS"}

\* the variables the source names as not to be passed to the terminal
SecretNames == {"ANTHROPIC_API_KEY"}

EnvNames == HostDerived \cup FixedNames \cup SecretNames

\* the values a variable of the process environment is given here
HostValues == {"h1", "h2"}
\* the variables of the process environment that are given values here: a
\* pass-through key, a locale variable, a variable create overrides and a
\* secret; every other variable is unset in the process
VariedNames == {"HOME", "LANG", "TERM", "ANTHROPIC_API_KEY"}

HostEnvs ==
    {[k \in EnvNames |-> IF k \in VariedNames THEN f[k] ELSE Unset] :
        f \in [VariedNames -> HostValues \cup {Unset}]}

Runs == {1, 2}
\* no shell has been spawned in the run
NoEnv == [k \in EnvNames |-> "(no shell)"]

\* CommandBuilder::new(&shell): the builder starts from the environment of
\* the calling process, and the later env() calls add to it or override in
\* it; create never calls env_clear().  (This is why create has to blank
\* CLAUDECODE, which the shell would otherwise get from the process.)
CommandBuilderNew(h) == h

\* cmd.env(key, val)
SetEnv(e, k, v) == [e EXCEPT ![k] = v]

\* std::env::var(key).unwrap_or_else(|_| default)
VarOr(h, k, default) == IF h[k] = Unset THEN default ELSE h[k]

\* for key in [..] { if let Ok(val) = std::env::var(key) { cmd.env(key, &val) } }
PassThroughLoop(e, h) ==
    [k \in EnvNames |-> IF k \in PassThrough /\ h[k] # Unset THEN h[k] ELSE e[k]]

\* the environment of the shell create spawns in a process with environment h
ShellEnv(h) ==
    LET e0 == CommandBuilderNew(h)
        e1 == SetEnv(e0, "CLAUDECODE", "")
        e2 == SetEnv(e1, "TERM", "xterm-256color")
        e3 == SetEnv(e2, "COLORTERM", "truecolor")
        e4 == SetEnv(e3, "TERM_PROGRAM", "SoulOS")
        e5 == SetEnv(e4, "TERM_PROGRAM_VERSION", "CARGO_PKG_VERSION")
        e6 == SetEnv(e5, "LANG", VarOr(h, "LANG", "en_US.UTF-8"))
        e7 == SetEnv(e6, "LC_CTYPE", VarOr(h, "LC_CTYPE", "en_US.UTF-8"))
        e8 == PassThroughLoop(e7, h)
        e9 == SetEnv(e8, "SOUL_PATH", "soul_path")
    IN  SetEnv(e9, "INSIDE_SOUL_OS", "1")

\* the environment part takes no part in the other specifications
EnvIdle ==
    /\ host_env = <<>>
    /\ shell_env = <<>>

\* two runs, each in a process environment of its own
EnvInit ==
    /\ host_env \in [Runs -> HostEnvs]
    /\ shell_env = [r \in Runs |-> NoEnv]

\* create in run r gets as far as spawn_command: the shell has its environment
SpawnShell(r) ==
    /\ shell_env[r] = NoEnv
    /\ shell_env' = [shell_env EXCEPT ![r] = ShellEnv(host_env[r])]
    /\ UNCHANGED <<host_env, sidecarVars, ptyVars, mgrVars, relayVars>>

EnvNext == \E r \in Runs : SpawnShell(r)

(***************************************************************************)
(* Specifications.                                                         *)
(***************************************************************************)
Init == SidecarInit /\ PtyInit /\ MgrInit /\ EnvIdle /\ RelayIdle

SidecarSpec == Init /\ [][SidecarNext]_vars

SidecarStatusSpec == Init /\ [][SidecarStatusNext]_vars

\* pty.rs is the same on every build target
PtyStart == Init /\ unix = TRUE

PtySpec == PtyStart /\ [][PtyNext]_vars

\* the flusher thread is scheduled again and again (it only sleeps for
\* FLUSH_INTERVAL); nothing is assumed of the reader or of the shell
PtyFairSpec == PtySpec /\ WF_vars(FlusherStep)

\* both threads of the session go on running: the flusher as above, and a
\* reader blocked in read() returns once bytes are pending or the slave side
\* of the pty is closed
PtyWorkersFairSpec == PtySpec /\ WF_vars(FlusherStep) /\ WF_vars(ReaderStep)

\* the environments of the shells of two runs of create
EnvStart ==
    SidecarInit /\ unix = TRUE /\ PtyInit /\ MgrInit /\ EnvInit /\ RelayIdle

\* the two relay threads of one started child
RelaySpec == Init /\ [][RelayNext]_vars

EnvSpec == EnvStart /\ [][EnvNext]_vars

\* either manager, called from one thread, with kill() and wait() that may fail
FaultSpec == Init /\ [][FaultNext]_vars

\* a thread inside one of the two shutdowns goes on running; nothing is
\* assumed of the children: a child need not react to SIGTERM and need not
\* exit by itself
ShutdownStep(t) == ShutdownLock(t) \/ ShutdownKill(t) \/ ShutdownClear(t)

OneManagerSpec == Init /\ [][OneManagerNext]_vars

\* the callers of both managers and the workers of one session
LockSpec == PtyStart /\ [][LockNext]_vars

OneManagerFairSpec ==
    /\ OneManagerSpec
    /\ WF_vars(ShutdownStep(MainThread))
    /\ WF_vars(MgrShutdownKill(MainThread))

\* both managers, called from one thread, up to the end of the quit handler
TeardownSpec == Init /\ [][TeardownNext]_vars

\* the same, and the shutdowns are called again from the destroyed handler
TeardownAgainSpec == Init /\ [][TeardownAgainNext]_vars

\* the calls of create, write, resize, close and shutdown, made by two threads
MgrSpec == PtyStart /\ [][MgrNext]_vars

\* a thread inside stop_process goes on running: the scheduler does not
\* suspend it for ever; nothing is assumed of the child
StopStep(t) == StopPoll(t) \/ StopKill(t) \/ StopClear(t)

SidecarFairSpec == SidecarSpec /\ \A t \in Threads : WF_vars(StopStep(t))

(***************************************************************************)
(* Claims about the supervisor.                                            *)
(***************************************************************************)
AliveChildren(n) == {c \in ChildIds : os[c].name = n /\ os[c].state = "alive"}

\* C1: for each name at most one spawned child is alive in every reachable
\* state, whatever the interleaving of start, stop, is_running and shutdown;
\* a start that found a child handle in the record has killed and reaped that
\* child by the time it spawns the new one.
C1_AtMostOneLiveChild ==
    /\ \A n \in Names : Cardinality(AliveChildren(n)) <= 1
    /\ \A t \in Threads :
         pc[t] = "start_spawn" /\ victim[t] # NoChild
            => os[victim[t]].state = "reaped"

\* two start calls on one name at the same time: one has replaced a previous
\* child (reaped) by a new live one while the other waits for the lock
C1_Witness ==
    \E t, u \in Threads :
        /\ t # u
        /\ pc[t] = "start_ret" /\ ret[t] = "Ok"
        /\ victim[t] # NoChild /\ os[victim[t]].state = "reaped"
        /\ os[victim[t]].killedBy = "start"
        /\ os[rec[arg[t]].child].state = "alive"
        /\ pc[u] = "start_lock" /\ arg[u] = arg[t]

\* C2: whenever no operation on a name is in progress (its lock is free), the
\* stored status is "running" if and only if the record holds a handle to a
\* child that is still alive.
C2_RunningIffLiveChild ==
    \A n \in Names :
        lock[n] = NoThread =>
            (rec[n].status = "running"
                <=> (rec[n].child # NoChild /\ os[rec[n].child].state = "alive"))

C4_EscalationOrder ==
    unix =>
        \A c \in ChildIds :
            os[c].killedBy \in {"stop", "shutdown"} =>
                os[c].termSent /\ ~os[c].exitedInGrace

\* C5: stop returns Ok in every case, and when it returns the record has no
\* child handle, no start time and status "stopped", and the call has
\* published exactly one status=stopped event for its name.
C5_StopPostcondition ==
    \A t \in Threads :
        pc[t] = "stop_ret" =>
            /\ ret[t] = "Ok"
            /\ rec[arg[t]].child = NoChild
            /\ rec[arg[t]].start_time = "None"
            /\ rec[arg[t]].status = "stopped"
            /\ emitted[t] = <<StatusEvent(arg[t], "stopped", NoChild)>>

\* stop returns after the child exited by itself within the grace period
C5_Witness ==
    \E t \in Threads :
        /\ pc[t] = "stop_ret" /\ ret[t] = "Ok" /\ victim[t] # NoChild
        /\ os[victim[t]].termSent /\ os[victim[t]].killedBy = "none"
        /\ os[victim[t]].exitedInGrace

(***************************************************************************)
(* Claims about a terminal session's output path.                          *)
(***************************************************************************)
MaxBytes == 2 * MaxChars

IsData(e) == e.topic = "pty:data"
IsExit(e) == e.topic = "pty:exit"

\* the payloads of the pty:data events published so far, one after the other
RECURSIVE PublishedText(_)
PublishedText(ev) ==
    IF ev = <<>> THEN <<>>
    ELSE (IF IsData(ev[1]) THEN ev[1].data ELSE <<>>) \o PublishedText(Tail(ev))

\* the bytes those payloads were made from
RECURSIVE PublishedChunks(_)
PublishedChunks(ev) ==
    IF ev = <<>> THEN <<>>
    ELSE (IF IsData(ev[1]) THEN ev[1].chunk ELSE <<>>) \o PublishedChunks(Tail(ev))

ExitCount == Len(SelectSeq(events, IsExit))

\* C6: at every moment the payloads of the pty:data events published so far,
\* followed by the batch the flusher has taken and not yet published, the
\* content of the shared buffer and the chunk the reader is about to append,
\* are the bytes the reader has read so far, in order.
C6_PayloadsAreTheBytesRead ==
    Utf8Bytes(PublishedText(events)) \o data \o buffer \o rbuf = readLog

\* C7: when pty:exit is published, every byte the reader has read has been
\* handed to a pty:data event before, in order: what was appended between the
\* last drain and the setting of reader_done went out with the final flush.
C7_AllBytesPublishedAtExit ==
    ExitCount > 0 => PublishedChunks(events) = readLog /\ rbuf = <<>>

\* pty:exit is published after a final flush that found bytes in the buffer
C7_Witness ==
    /\ ExitCount > 0
    /\ \E i \in 1..Len(events) : IsData(events[i]) /\ events[i].by = "final"

\* C8: every pty:data event, from a periodic drain or from the final flush,
\* carries at most MAX_FLUSH_BYTES bytes of the buffer.
C8_ChunkCeiling ==
    \A i \in 1..Len(events) :
        IsData(events[i]) => Len(events[i].chunk) <= MAX_FLUSH_BYTES

\* C9: a flusher drain that finds bytes in the shared buffer takes all of
\* them, and every byte the reader has appended is eventually published, given
\* only that the flusher keeps running: no further step of the reader or of
\* the shell is needed.
C9_AppendedBytesArePublished ==
    /\ [][fpc = "loop" /\ buffer # <<>> /\ fpc' # "loop"
            => fpc' = "emit" /\ data' = buffer /\ buffer' = <<>>]_vars
    /\ \A k \in 1..MaxBytes :
         (Len(readLog) - Len(rbuf) >= k) ~> (Len(PublishedChunks(events)) >= k)

\* the shell is alive and silent, the reader blocked in read, and all that
\* was read has been published
C9_Witness ==
    /\ slaveOpen /\ pending = <<>> /\ rpc = "read" /\ ~reader_done
    /\ readLog # <<>>
    /\ PublishedChunks(events) = readLog

\* C10: at most one pty:exit event is ever published for the session, and once
\* the reader has seen end-of-stream or a read error exactly one is eventually
\* published, for the session's id, and the flusher has terminated.
C10_ExactlyOneExit ==
    /\ [](ExitCount <= 1)
    /\ [](\A i \in 1..Len(events) : events[i].id = sid)
    /\ [](fpc = "terminated" => ExitCount = 1 /\ IsExit(events[Len(events)]))
    /\ reader_done ~> (fpc = "terminated" /\ ExitCount = 1)

\* the reader has ended after reading output and the flusher has terminated
\* with its one exit event
C10_Witness ==
    /\ reader_done /\ rpc = "exit" /\ readLog # <<>>
    /\ fpc = "terminated" /\ ExitCount = 1

\* the observed session was closed (or drained by shutdown) after create
SessionRemoved == sid # 0 /\ sid \notin sessions

\* C11: no pty:data event of a session is published after its pty:exit
\* event: whenever a pty:exit event has been published it is the last event,
\* whether the shell exited by itself or the session was closed
C11_ExitIsLastEvent ==
    \A i \in 1..Len(events) : IsExit(events[i]) => i = Len(events)

\* a closed session whose flusher has published data and then the exit event
C11_Witness ==
    /\ SessionRemoved
    /\ fpc = "terminated"
    /\ Len(events) >= 2
    /\ IsData(events[Len(events) - 1])
    /\ IsExit(events[Len(events)])

(***************************************************************************)
(* Claims about the session manager.                                       *)
(***************************************************************************)
\* C12, as stated: the ids successful create calls return are positive and
\* each is strictly greater than every id returned earlier, over every
\* interleaving of the calls of two threads
C12_ReturnedInIncreasingOrder ==
    \A j \in 1..Len(returned) :
        /\ returned[j] >= 1
        /\ \A i \in 1..(j - 1) : returned[i] < returned[j]

\* C12, amended: ids are taken from a counter that starts at 1 and only
\* grows, so every id returned is positive and no id is returned twice, also
\* after its session was closed; the ids are strictly increasing in the order
\* in which they are taken, which under concurrent create calls need not be
\* the order in which the calls return
C12_HandlesNeverReused ==
    /\ [](\A j \in 1..Len(returned) :
            /\ returned[j] \in 1..(next_id - 1)
            /\ \A i \in 1..(j - 1) : returned[i] # returned[j])
    /\ [](sessions \subseteq 1..(next_id - 1))
    /\ [][\A t \in Threads : mpc[t] = "create_id" /\ mpc'[t] # "create_id"
             => marg'[t] = next_id /\ next_id' > next_id]_vars
    /\ [][next_id' >= next_id]_vars

\* the session of the first id returned has been closed and a later create
\* has returned another id
C12_Witness ==
    /\ Len(returned) = 2
    /\ returned[1] \notin sessions
    /\ returned[2] \in sessions

\* the ids create has handed out so far
Issued == {returned[i] : i \in 1..Len(returned)}

\* thread t takes a step of the call named op (its first step included)
StepOf(t, op) == mpc'[t] # mpc[t] /\ mop'[t] = op

\* C13: close is idempotent.  A close of an id that is not registered (already
\* closed, or never issued) returns Ok, leaves the registry, the counter and
\* every shell as they are and takes no lock; close never returns anything
\* but Ok; and an id that was handed out and is no longer registered is never
\* registered again, so a second close of it is such a no-op
C13_CloseIdempotent ==
    /\ [][\A t \in Threads :
             StepOf(t, "close") /\ mpc[t] = "idle" /\ marg'[t] \notin sessions
             => /\ mpc'[t] = "ret"
                /\ mret'[t] = "Ok"
                /\ held'[t] = {}
                /\ UNCHANGED <<sessions, child_of, shells, next_id, slock>>]_vars
    /\ [](\A t \in Threads : mop[t] = "close" /\ mpc[t] = "ret" => mret[t] = "Ok")
    /\ [][\A id \in Issued : id \notin sessions => id \notin sessions']_vars

\* a close of an id that was handed out and closed before has returned Ok
\* without having removed anything, while another session is registered
C13_Witness ==
    \E t \in Threads :
        /\ mop[t] = "close"
        /\ mpc[t] = "ret"
        /\ mret[t] = "Ok"
        /\ held[t] = {}
        /\ marg[t] \in Issued
        /\ sessions # {}

\* C14: when close returns for an id that was registered, the id is not in
\* the registry and the session's child has been killed and waited on; no
\* step of a close call changes the registry entry or the child of another
\* session
C14_CloseRemovesAndKills ==
    /\ [](\A t \in Threads :
            mop[t] = "close" /\ mpc[t] = "ret" /\ held[t] # {}
            => /\ marg[t] \notin sessions
               /\ \A k \in held[t] : shells[k].state = "reaped" /\ shells[k].killed)
    /\ [][\A t \in Threads :
             StepOf(t, "close")
             => /\ \A id \in Ids \ {marg'[t]} :
                      /\ id \in sessions' <=> id \in sessions
                      /\ child_of'[id] = child_of[id]
                /\ \A k \in ShellIds \ held'[t] : shells'[k] = shells[k]]_vars

\* close has returned for a registered session whose shell was running,
\* while another session with a running shell stays registered
C14_Witness ==
    \E t \in Threads :
        /\ mop[t] = "close"
        /\ mpc[t] = "ret"
        /\ held[t] # {}
        /\ \E id \in sessions : shells[child_of[id]].state = "alive"

\* C15: write and resize of an id that is not registered return the
\* not-found error; of a registered id they return something else; and no
\* step of a write or resize call changes the registry, the counter or a
\* shell child, so neither ever removes a session
C15_WriteResizeLeaveRegistry ==
    [][\A t \in Threads :
         StepOf(t, "write") \/ StepOf(t, "resize")
         => /\ UNCHANGED <<sessions, child_of, shells, next_id>>
            /\ mpc[t] = "idle" /\ marg'[t] \notin sessions
               => mpc'[t] = "ret" /\ mret'[t] = "NotFound" /\ slock' = slock
            /\ mpc[t] = "idle" /\ marg'[t] \in sessions
               => mret'[t] # "NotFound"]_vars

\* a write or resize of a closed id has returned not-found while another
\* session is registered
C15_Witness ==
    \E t \in Threads :
        /\ mop[t] \in {"write", "resize"}
        /\ mpc[t] = "ret"
        /\ mret[t] = "NotFound"
        /\ marg[t] \in Issued
        /\ sessions # {}

\* no call of the session manager is in progress
MgrQuiescent == \A t \in Threads : mpc[t] = "idle"

\* the shell children that were spawned and that the manager has not killed
Unkilled == {k \in ShellIds : shells[k].state # "unborn" /\ ~shells[k].killed}

\* C16: whenever no call is in progress, every shell child that create has
\* spawned and the manager has not killed is the child of a registered
\* session
C16_NoOrphanShell ==
    MgrQuiescent => \A k \in Unkilled : \E id \in sessions : child_of[id] = k

SidecarBlockingPlaces == {"stop_poll", "stop_kill", "shut_sleep"}

\* C18: no thread is inside a blocking call (a sleep, a grace-period poll, a
\* child wait) while it holds the lock of a sidecar record
C18_NoLockAcrossBlockingCall ==
    \A t \in Threads : pc[t] \in SidecarBlockingPlaces => \A n \in Names : lock[n] # t

\* both shutdown calls of the quit handler have returned
TeardownDone == SidecarShutdownReturned /\ PtyShutdownReturned

\* C19: after both shutdown calls have returned, in either order, no child
\* that either manager has spawned is alive: both sidecar records are without
\* child handle and stopped, the registry is empty, every child the drained
\* sessions owned has been killed and waited on, and no supervisor child and
\* no shell is running
C19_NoLiveChildAfterTeardown ==
    TeardownDone =>
        /\ \A n \in Names : rec[n].child = NoChild /\ rec[n].status = "stopped"
        /\ \A c \in ChildIds : os[c].state # "alive"
        /\ sessions = {}
        /\ \A k \in held[MainThread] : shells[k].state = "reaped" /\ shells[k].killed
        /\ \A k \in ShellIds : shells[k].state # "alive"

\* thread t's start call has succeeded and is about to return
StartSucceeded(t) == pc[t] = "start_ret" /\ ret[t] = "Ok"

\* C20: a start call that succeeds has published, in this order, exactly one
\* status=starting event and one status=running event with the pid of the
\* child it spawned; the spawn lies between the two; and at its return the
\* record holds that child's handle, a start time, status running and
\* restart counter 0
C20_StartPublishesStartingThenRunning ==
    /\ [](\A t \in Threads : StartSucceeded(t) =>
            LET n == arg[t]
                c == rec[n].child
            IN /\ c # NoChild
               /\ c # victim[t]
               /\ os[c].name = n
               /\ os[c].state # "unborn"
               /\ emitted[t] = <<StatusEvent(n, "starting", NoChild),
                                 StatusEvent(n, "running", c)>>
               /\ rec[n] = [child |-> c, start_time |-> "Some",
                            restart_count |-> 0, status |-> "running"])
    /\ [](\A t \in Threads : pc[t] = "start_spawn" =>
            emitted[t] = <<StatusEvent(arg[t], "starting", NoChild)>>)
    /\ [][\A t \in Threads : pc[t] = "start_spawn" /\ StartSucceeded(t)' =>
             /\ nspawned' = nspawned + 1
             /\ os[nspawned'].state = "unborn"
             /\ os'[nspawned'].state = "alive"
             /\ rec'[arg[t]].child = nspawned']_vars

\* a start that found a previous child in the record has succeeded
C20_Witness ==
    \E t \in Threads : StartSucceeded(t) /\ victim[t] # NoChild

(***************************************************************************)
(* Further claims about the supervisor.                                    *)
(***************************************************************************)
\* the edges the stored status may take
StatusEdges == {<<"stopped", "starting">>, <<"starting", "running">>,
                <<"running", "stopped">>, <<"running", "starting">>}

\* C21: whenever the stored status of a name changes, it changes along one
\* of the edges stopped -> starting, starting -> running, running -> stopped,
\* running -> starting
C21_StatusEdgesOnly ==
    [][\A n \in Names : rec'[n].status # rec[n].status
         => <<rec[n].status, rec'[n].status>> \in StatusEdges]_vars

\* thread t's start call has returned the resolution error: it is about to
\* return without having published anything
ResolutionFailed(t) == pc[t] = "start_ret" /\ ret[t] = "Err" /\ emitted[t] = <<>>

\* C22: a start whose entry point or interpreter is not found goes from the
\* call straight to its error return; neither that step nor the return
\* spawns a child, publishes an event, takes a lock, or changes a record or a
\* child
C22_ResolutionFailureChangesNothing ==
    /\ [][\A t \in Threads : pc[t] = "idle" /\ pc'[t] = "start_ret"
             => /\ ResolutionFailed(t)'
                /\ UNCHANGED <<rec, os, nspawned, lock, emitted>>]_vars
    /\ [][\A t \in Threads : ResolutionFailed(t) /\ pc'[t] # pc[t]
             => /\ pc'[t] = "idle"
                /\ UNCHANGED <<rec, os, nspawned, lock>>]_vars
    /\ [](\A t \in Threads : ResolutionFailed(t) => \A n \in Names : lock[n] # t)

\* a start has failed to resolve while the name's previous instance is
\* running, and it still is
C22_Witness ==
    \E t \in Threads :
        /\ ResolutionFailed(t)
        /\ rec[arg[t]].status = "running"
        /\ rec[arg[t]].child # NoChild
        /\ os[rec[arg[t]].child].state = "alive"

\* thread t's status call has read the record and is about to return
StatusRead(t) == pc[t] = "status_ret"

\* C23: a status call is a pure read.  Its one step takes the record's lock
\* only for the read, changes no record, no child, no lock and publishes no
\* event, and reports the stored status, the child handle's pid (none when
\* there is no handle) and an uptime exactly when a start time is recorded;
\* its return changes none of them either
C23_StatusIsPureRead ==
    /\ [][\A t \in Threads : pc[t] = "idle" /\ StatusRead(t)'
             => /\ UNCHANGED <<rec, os, lock, nspawned, emitted>>
                /\ report'[t].status = rec[arg'[t]].status
                /\ report'[t].pid = rec[arg'[t]].child
                /\ report'[t].uptime_secs = "Some" <=> rec[arg'[t]].start_time = "Some"]_vars
    /\ [][\A t \in Threads : StatusRead(t) /\ pc'[t] # pc[t]
             => pc'[t] = "idle" /\ UNCHANGED <<rec, os, lock, nspawned>>]_vars

\* a status call has reported running with a pid for a child that has exited
\* and is still unreaped after the call
C23_Witness ==
    \E t \in Threads :
        /\ StatusRead(t)
        /\ report[t].status = "running"
        /\ report[t].pid # NoChild
        /\ report[t].uptime_secs = "Some"
        /\ os[report[t].pid].state = "zombie"

\* thread t's is_running call has looked at the engine and is about to return
AliveChecked(t) == pc[t] = "alive_ret"

PerNameLabels ==
    {"start_lock", "start_spawn", "start_ret", "stop_lock", "stop_poll",
     "stop_kill", "stop_clear", "stop_ret", "alive_ret", "status_ret"}

\* this step is a step of thread t inside (or entering, or returning from)
\* a start, stop, status or is_running call on name n
PerNameStep(t, n) ==
    /\ <<pc[t], elapsed[t]>> # <<pc'[t], elapsed'[t]>>
    /\ \/ pc[t] = "idle" /\ pc'[t] \in PerNameLabels /\ arg'[t] = n
       \/ pc[t] \in PerNameLabels /\ arg[t] = n

\* C25: every step of a start, stop, status or is_running call on one name
\* leaves the other name's record, the other name's child and the other
\* name's lock as they were, and the events the call publishes all carry
\* the call's own name
C25_NamesIndependent ==
    [][\A t \in Threads, n \in Names : PerNameStep(t, n) =>
         LET m == OtherName(n) IN
           /\ rec'[m] = rec[m]
           /\ lock'[m] = lock[m]
           /\ rec[m].child # NoChild => os'[rec[m].child] = os[rec[m].child]
           /\ \A i \in 1..Len(emitted'[t]) : emitted'[t][i].process = n]_vars

\* a stop of one name has killed that name's child and published stopped
\* while the other name's child is alive and its record says running
C25_Witness ==
    \E t \in Threads :
        LET n == arg[t] IN
          /\ n \in Names
          /\ pc[t] = "stop_ret"
          /\ victim[t] # NoChild
          /\ emitted[t] # <<>>
          /\ rec[OtherName(n)].status = "running"
          /\ rec[OtherName(n)].child # NoChild
          /\ os[rec[OtherName(n)].child].state = "alive"

\* thread t's create has inserted its session and returns Ok(id)
CreateSucceeded(t) == mop[t] = "create" /\ mpc[t] = "ret" /\ mret[t] = "Ok"

\* C26: the step by which create succeeds puts a session into the registry
\* under exactly the id it returns, and a reader and a flusher thread, and
\* no other, have been spawned for that id; the registry changes only by
\* such an insertion, by close removing the id it was given and by shutdown
\* emptying it, and distinct entries hold distinct shells
C26_CreateRegistersWithTwoWorkers ==
    /\ [][\A t \in Threads : ~CreateSucceeded(t) /\ CreateSucceeded(t)' =>
             /\ marg'[t] \notin sessions
             /\ sessions' = sessions \cup {marg'[t]}
             /\ child_of'[marg'[t]] # NoShell
             /\ workers'[marg'[t]] = {"reader", "flusher"}
             /\ Cardinality(workers'[marg'[t]]) = 2]_vars
    /\ [][sessions' # sessions =>
             \E t \in Threads :
                \/ ~CreateSucceeded(t) /\ CreateSucceeded(t)'
                \/ mop'[t] = "close" /\ mpc[t] = "idle"
                   /\ sessions' = sessions \ {marg'[t]}
                \/ mop'[t] = "shutdown" /\ mpc[t] = "idle" /\ sessions' = {}]_vars
    /\ [](\A i, j \in sessions :
             /\ child_of[i] # NoShell
             /\ workers[i] = {"reader", "flusher"}
             /\ child_of[i] = child_of[j] => i = j)
    /\ [](\A t \in Threads : CreateSucceeded(t) =>
             workers[marg[t]] = {"reader", "flusher"})

\* two sessions are registered, each with its two threads, and the create
\* that registered the second is about to return its id
C26_Witness ==
    \E t \in Threads :
        /\ CreateSucceeded(t)
        /\ marg[t] \in sessions
        /\ Cardinality(sessions) = 2
        /\ \A i \in sessions : workers[i] = {"reader", "flusher"}

\* the two process environments agree on every variable create takes from
\* the process and differ in a secret
DifferOnlyInSecret ==
    /\ \A k \in HostDerived : host_env[1][k] = host_env[2][k]
    /\ \E k \in SecretNames : host_env[1][k] # host_env[2][k]

\* C27: when two process environments agree on the variables create takes
\* from the process and differ in a secret variable, the two shells get the
\* same environment, and no shell's environment holds a secret variable
C27_ShellEnvIgnoresSecrets ==
    (\A r \in Runs : shell_env[r] # NoEnv) =>
        /\ DifferOnlyInSecret => shell_env[1] = shell_env[2]
        /\ \A r \in Runs, k \in SecretNames : shell_env[r][k] = Unset

\* this step is a step of the reader thread
ReaderMoves == rpc # "none" /\ rpc' # rpc

\* C28: a step of the reader thread publishes no event and touches nothing
\* of the flusher or the registry; it changes the shared buffer only by
\* appending the chunk it has just read, and appends every such chunk; the
\* finished flag is set by the reader alone, once, on the step by which it
\* exits, and stays set; after it is set the reader takes no further step
\* and the buffer never grows
C28_ReaderOnlyAppendsAndFlags ==
    /\ [][ReaderMoves =>
             /\ UNCHANGED <<events, fpc, data, sessions, next_id>>
             /\ rpc = "append" => rbuf # <<>> /\ buffer' = buffer \o rbuf
             /\ rpc # "append" => buffer' = buffer
             /\ rpc' = "append" => rbuf' # <<>> /\ readLog' = readLog \o rbuf'
             /\ reader_done' # reader_done => rpc = "read" /\ rpc' = "exit"
             /\ rpc' = "exit" => reader_done']_vars
    /\ [][reader_done' # reader_done => ReaderMoves /\ ~reader_done]_vars
    /\ [][reader_done =>
             /\ reader_done'
             /\ rpc = "exit" /\ rpc' = "exit"
             /\ buffer' = buffer \/ buffer' = <<>>]_vars

\* the reader has appended chunks, has met the end of the stream, has set
\* the flag and exited, and no event has been published yet
C28_Witness ==
    /\ rpc = "exit"
    /\ reader_done
    /\ Len(readLog) >= 2
    /\ buffer = readLog
    /\ events = <<>>

\* the children of the supervisor that are alive and held by no record
OrphanChildren ==
    {c \in ChildIds : os[c].state = "alive" /\ \A n \in Names : rec[n].child # c}

\* C29: whether kill() and wait() succeed or fail, the step that calls them
\* takes stop and the supervisor's shutdown on to clearing the record and
\* close and the session manager's shutdown on to their return; stop and
\* close return Ok and no shutdown returns an error; when stop returns the
\* record holds no handle, when the supervisor's shutdown returns no record
\* does, when close returns its id is not registered, when the session
\* manager's shutdown returns nothing is
C29_ShutdownPathsSwallowFailures ==
    /\ [][/\ pc[MainThread] = "stop_kill" /\ pc'[MainThread] # "stop_kill"
             => pc'[MainThread] = "stop_clear"
          /\ pc[MainThread] = "shut_sleep" /\ pc'[MainThread] # "shut_sleep"
             => pc'[MainThread] = "shut_clear"
          /\ mpc[MainThread] \in {"close_kill", "shutdown_kill"}
             /\ mpc'[MainThread] # mpc[MainThread]
             => mpc'[MainThread] = "ret" /\ mret'[MainThread] # "Err"
                /\ slock' = NoThread]_vars
    /\ [](pc[MainThread] = "stop_ret" =>
             /\ ret[MainThread] = "Ok"
             /\ rec[arg[MainThread]].child = NoChild
             /\ rec[arg[MainThread]].status = "stopped")
    /\ [](pc[MainThread] = "shut_ret" =>
             /\ ret[MainThread] # "Err"
             /\ \A n \in Names : rec[n].child = NoChild /\ rec[n].status = "stopped")
    /\ [](mop[MainThread] = "close" /\ mpc[MainThread] = "ret" =>
             /\ mret[MainThread] = "Ok"
             /\ marg[MainThread] \notin sessions)
    /\ [](mop[MainThread] = "shutdown" /\ mpc[MainThread] = "ret" =>
             /\ mret[MainThread] # "Err"
             /\ sessions = {})

\* stop returns Ok with the record cleared although kill() and wait() have
\* failed: the child it was to stop is alive and no record holds it
C29_Witness ==
    /\ pc[MainThread] = "stop_ret"
    /\ ret[MainThread] = "Ok"
    /\ victim[MainThread] \in OrphanChildren

\* the same for close, and for each of the two shutdowns
C29_CloseAfterFailure ==
    /\ mop[MainThread] = "close" /\ mpc[MainThread] = "ret" /\ mret[MainThread] = "Ok"
    /\ \E k \in held[MainThread] : shells[k].state = "alive"
C29_PtyShutdownAfterFailure ==
    /\ mop[MainThread] = "shutdown" /\ mpc[MainThread] = "ret"
    /\ \E k \in held[MainThread] : shells[k].state = "alive"
C29_SidecarShutdownAfterFailure ==
    /\ pc[MainThread] = "shut_ret"
    /\ Cardinality(OrphanChildren) = MaxSpawns

\* the steps SidecarManager::shutdown still has before it: three for each
\* process of the loop (lock and SIGTERM, the sleep and the kill, the clear)
ShutdownStepsLeft(t) ==
    IF pc[t] \notin {"shut_lock", "shut_sleep", "shut_clear"} THEN 0
    ELSE (IF arg[t] = ProcessOrder[1] THEN 3 ELSE 0)
         + (IF pc[t] = "shut_lock" THEN 3 ELSE IF pc[t] = "shut_sleep" THEN 2 ELSE 1)

\* C30: each shutdown, once called, returns, whatever the children do (a
\* child need not react to SIGTERM); every step of the supervisor's
\* shutdown brings it nearer to its return, and there are at most six, three
\* per process: after the one sleep
\* the child is killed whether it has exited or not, and only the child of
\* the process at hand is touched; the session manager's shutdown kills and
\* reaps every drained child in the step after the drain
C30_ShutdownTerminates ==
    /\ (pc[MainThread] = "shut_lock") ~> (pc[MainThread] = "shut_ret")
    /\ (mpc[MainThread] = "shutdown_kill") ~> (mpc[MainThread] = "ret")
    /\ [][ShutdownStepsLeft(MainThread) > 0 /\ pc'[MainThread] # pc[MainThread] =>
             /\ ShutdownStepsLeft(MainThread)' < ShutdownStepsLeft(MainThread)
             /\ \A c \in ChildIds : os'[c] # os[c] => c = rec[arg[MainThread]].child]_vars
    /\ [](pc[MainThread] = "shut_clear" /\ victim[MainThread] # NoChild =>
             os[victim[MainThread]].state = "reaped")
    /\ [][mpc[MainThread] = "shutdown_kill" /\ mpc'[MainThread] # "shutdown_kill" =>
             /\ mpc'[MainThread] = "ret"
             /\ \A k \in held[MainThread] : shells'[k].state = "reaped"]_vars

\* the supervisor's shutdown has dealt with the first process and has just
\* killed the child of the second, which was sent SIGTERM and did not exit
C30_Witness ==
    /\ unix
    /\ pc[MainThread] = "shut_clear"
    /\ arg[MainThread] = ProcessOrder[2]
    /\ rec[ProcessOrder[1]].child = NoChild
    /\ victim[MainThread] # NoChild
    /\ os[victim[MainThread]].termSent
    /\ ~os[victim[MainThread]].exitedInGrace
    /\ os[victim[MainThread]].killedBy = "shutdown"

\* the session manager's shutdown has killed two live shells and returns
C30_PtyShutdownKilledAll ==
    /\ mop[MainThread] = "shutdown" /\ mpc[MainThread] = "ret"
    /\ Cardinality(held[MainThread]) = MaxSessions
    /\ \A k \in held[MainThread] : shells[k] = [state |-> "reaped", killed |-> TRUE]

(***************************************************************************)
(* Claims about the relay of a sidecar child's output.                     *)
(***************************************************************************)
\* the lines of the bytes b: what stands between the newlines, and what
\* follows the last newline when that is not empty
RECURSIVE SplitLines(_)
SplitLines(b) ==
    IF b = <<>> THEN <<>>
    ELSE IF FirstNewline(b) = 0 THEN <<b>>
    ELSE <<SubSeq(b, 1, FirstNewline(b) - 1)>>
         \o SplitLines(SubSeq(b, FirstNewline(b) + 1, Len(b)))

\* the lines published for stream s so far, in the order of their events
PublishedLines(s) ==
    LET OfStream(e) == e.topic = LogEvent(s, rproc, <<>>).topic
        sel == SelectSeq(logs, OfStream)
    IN  [i \in 1..Len(sel) |-> sel[i].bytes]

IsPrefix(a, b) == Len(a) <= Len(b) /\ a = SubSeq(b, 1, Len(a))

\* C31: a started child has a relay thread for each of its two streams;
\* every log event carries the child's process name; the lines published
\* for a stream are, in order, the first lines the child wrote to it; and
\* when the relay of a stream has ended at the end of the stream, every
\* line the child wrote to it has been published
C31_EveryLineRelayedInOrder ==
    /\ rproc # "none" => \A s \in Streams : relay[s] # "none"
    /\ \A i \in 1..Len(logs) : logs[i].process = rproc
    /\ \A s \in Streams :
         /\ IsPrefix(PublishedLines(s), SplitLines(wrote[s]))
         /\ relay[s] = "done" => PublishedLines(s) = SplitLines(wrote[s])

(***************************************************************************)
(* Further claims about the supervisor.                                    *)
(***************************************************************************)
\* some thread is inside a start call on name n
StartInProgress(n) ==
    \E t \in Threads : arg[t] = n /\ pc[t] \in {"start_lock", "start_spawn", "start_ret"}

\* C32: whenever no start call on a name is in progress the stored status of
\* that name is stopped or running, and a status call that reads the record
\* while no start on the name is in progress does not report starting
C32_StartingOnlyDuringStart ==
    /\ \A n \in Names : ~StartInProgress(n) => rec[n].status \in {"stopped", "running"}
    /\ \A t \in Threads :
         StatusRead(t) /\ ~StartInProgress(arg[t]) => report[t].status # "starting"

\* this step is thread t's libc::kill(child.id(), SIGTERM) for child c: the
\* step of stop_process or of shutdown that finds a handle in the record, on
\* a unix build
SendsSigterm(t, c) ==
    /\ unix
    /\ \/ pc[t] = "stop_lock" /\ pc'[t] = "stop_poll"
       \/ pc[t] = "shut_lock" /\ pc'[t] = "shut_sleep"
    /\ c = rec[arg[t]].child

\* C33: SIGTERM is sent only to the pid of a child whose exit status has not
\* been collected yet
C33_NoSignalToReapedChild ==
    [][\A t \in Threads, c \in ChildIds :
         SendsSigterm(t, c) => os[c].state # "reaped"]_vars

\* some thread is inside a call that works on the record of name n
OperationInProgress(n) ==
    \E t \in Threads :
        \/ arg[t] = n /\ pc[t] # "idle"
        \/ pc[t] \in {"shut_lock", "shut_sleep", "shut_clear", "shut_ret"}

\* C34: whenever the stored status of a name is stopped and no operation on
\* it is in progress, the record holds no child handle and no start time;
\* and a status call that reports stopped reports no pid and no uptime
C34_StoppedMeansEmptyRecord ==
    /\ \A n \in Names :
         rec[n].status = "stopped" /\ ~OperationInProgress(n) =>
             rec[n].child = NoChild /\ rec[n].start_time = "None"
    /\ \A t \in Threads :
         StatusRead(t) /\ report[t].status = "stopped" =>
             report[t].pid = NoChild /\ report[t].uptime_secs = "None"

\* the locks a caller holds: an engine or chain record, the session registry
LocksHeld(t) ==
    {n \in Names : lock[n] = t} \cup (IF slock = t THEN {"sessions"} ELSE {})
\* the flusher of the observed session is between two of its steps
FlusherRunning == fpc \in {"loop", "emit", "check", "final", "exit"}
\* the reader of the observed session is about to append under the buffer lock
ReaderAppending == rpc = "append"

\* C35: no thread holds two locks at the same time: a caller holds at most
\* one of the engine record, the chain record and the registry, and it holds
\* none of them when create takes the lock of the next-handle counter; the
\* reader and the flusher need no lock of a manager, so that each of them can
\* take its next step whoever holds the registry lock or a record lock
C35_NoThreadHoldsTwoLocks ==
    /\ \A t \in Threads : Cardinality(LocksHeld(t)) <= 1
    /\ \A t \in Threads : mpc[t] = "create_id" => LocksHeld(t) = {}
    /\ FlusherRunning => ENABLED FlusherStep
    /\ ReaderAppending => ENABLED ReaderAppend

\* a write holds the registry lock while the flusher has output to drain
C35_Witness_WriteHoldsRegistryWhileFlusherDrains ==
    /\ slock = MainThread
    /\ mpc[MainThread] = "write_io"
    /\ fpc = "loop"
    /\ buffer # <<>>
\* the ids that create has taken from the counter and has not returned and
\* is not about to return: the handles of the create calls that failed
FailedIds ==
    {id \in Ids : /\ id < next_id
                  /\ id \notin Issued
                  /\ \A t \in Threads : ~(mpc[t] = "create_insert" /\ marg[t] = id)}

\* C36: a create call that returns an error leaves nothing of its session
\* behind: the handle it had taken is not in the registry and neither a
\* reader nor a flusher thread (the thread that publishes the data and exit
\* events) has been spawned and left for it
C36_FailedCreateLeavesNoWorker ==
    \A id \in FailedIds : id \notin sessions /\ workers[id] = {}
\* the step is a close or a shutdown as the observed session sees it: the
\* shell is killed and no thread of the session and no other call moves
ClosesOrShutsDown ==
    /\ ~slaveOpen'
    /\ UNCHANGED <<rpc, rbuf, buffer, reader_done, fpc, data, events>>
    /\ UNCHANGED <<mgrVars, sid, next_id, written, pending>>

\* the caller looks the observed session up for a write or a resize
LooksUpObserved(t) ==
    /\ mpc[t] = "idle"
    /\ mop'[t] \in {"write", "resize"}
    /\ mpc'[t] # "idle"
    /\ marg'[t] = sid

\* C37: a session leaves the registry only through close or shutdown.  No
\* other step removes an id: not the exit of the shell, nor the reader seeing
\* the end of the stream, nor the flusher publishing the exit event; so a
\* write or a resize of the handle of a registered session finds it, whether
\* its shell has exited and the exit event is out or not: write goes on to
\* write_all and resize returns what master.resize returned, never not-found
C37_OnlyCloseUnregisters ==
    /\ [][sessions \ sessions' # {} => ClosesOrShutsDown]_vars
    /\ [][\A t \in Threads :
             LooksUpObserved(t) /\ sid \in sessions
             => /\ mret'[t] # "NotFound"
                /\ mop'[t] = "write" => mpc'[t] = "write_io" /\ slock' = t
                /\ sessions' = sessions]_vars

\* the shell of the observed session has exited by itself, its exit event is
\* published and the flusher has ended; the session is registered and a write
\* on its handle has found it
C37_Witness_WriteFindsExitedSession ==
    /\ sid \in sessions
    /\ fpc = "terminated"
    /\ ExitCount = 1
    /\ mop[MainThread] = "write"
    /\ mpc[MainThread] = "write_io"
    /\ marg[MainThread] = sid
\* what a shutdown of the supervisor leaves: no child handle in either
\* record, both stopped
NoChildHandle == \A n \in Names : rec[n].child = NoChild /\ rec[n].status = "stopped"

\* the main thread takes a step of the supervisor's shutdown
SidecarShutdownStep ==
    /\ pc'[MainThread] # pc[MainThread]
    /\ pc'[MainThread] \in {"shut_lock", "shut_sleep", "shut_clear", "shut_ret"}

\* the main thread takes a step of the session manager's shutdown
PtyShutdownStep ==
    /\ mpc'[MainThread] # mpc[MainThread]
    /\ mop'[MainThread] = "shutdown"

\* C38: each shutdown is idempotent.  A shutdown of the supervisor that has
\* returned has left no child handle, and one of the session manager no
\* session; a shutdown called again then takes only steps that leave the
\* records, every child process (no signal, no kill, no wait) and the events
\* as they are, respectively the registry, the counter and every shell
C38_SecondShutdownChangesNothing ==
    /\ [](SidecarShutdownReturned => NoChildHandle)
    /\ [](PtyShutdownReturned => sessions = {})
    /\ [][SidecarShutdownStep /\ NoChildHandle
            => /\ UNCHANGED <<rec, os, nspawned, emitted>>
               /\ pc'[MainThread] # "shut_sleep"]_vars
    /\ [][PtyShutdownStep /\ sessions = {} /\ held[MainThread] = {}
            => /\ UNCHANGED <<sessions, child_of, shells, nshells, next_id, returned>>
               /\ held'[MainThread] = {}]_vars

\* the destroyed handler's call of the supervisor's shutdown is at its first
\* process, after the quit handler's calls have returned; a child of the
\* supervisor has been reaped and a shell killed
C38_Witness_SecondShutdownAfterKills ==
    /\ pc[MainThread] = "shut_clear"
    /\ arg[MainThread] = ProcessOrder[1]
    /\ PtyShutdownReturned
    /\ NoChildHandle
    /\ \E c \in ChildIds : os[c].state = "reaped"
    /\ \E k \in ShellIds : shells[k].killed
====
